---- MODULE Spec2Model ----
(***************************************************************************)
(* Model of the image editor core: HistoryManager (src/canvas/history.ts), *)
(* CanvasManager (src/canvas/useCanvas.ts) and the filter dispatch          *)
(* (src/canvas/filters.ts, advancedFilters).                                *)
(*                                                                         *)
(* Nine specifications share the module:                                   *)
(*   SpecHistory  a HistoryManager driven directly by a caller.  Buffers   *)
(*                are heap objects (references), so that aliasing between  *)
(*                a stored entry and a buffer the caller holds is visible. *)
(*   Spec         a CanvasManager with its own HistoryManager.  The        *)
(*                CanvasManager never writes into a Uint8ClampedArray it   *)
(*                holds (every filter copies), so its buffers are values.  *)
(*   SpecCompose  the controls of the sidebar moved in any order over one  *)
(*                loaded image: loadImage and applyFilter only.            *)
(*   SpecEditor   the CanvasManager driven by the calls the Editor         *)
(*                component makes: those of Spec except bake.              *)
(*   SpecCrop     a crop session of the CanvasManager: loadImage,          *)
(*                setCropRect, confirmCrop and cancelCrop.                 *)
(*   SpecFilters  the exported functions of filters.ts called on a buffer  *)
(*                the caller holds; buffers are heap objects, so that      *)
(*                a call returning its argument is visible.                *)
(*   SpecBusy     applyFilter calls some of which end by an exception.     *)
(*   SpecEqualization  applyFilter calls for histogram equalization with   *)
(*                sub-fields missing.                                      *)
(*   SpecDebounce the Editor's debounced handler between the sidebar and   *)
(*                the CanvasManager: parameter changes, the timer, reset   *)
(*                and load.                                                *)
(* Indices are 0-based as in the source; a TLA+ sequence s is read at      *)
(* s[i + 1].                                                               *)
(***************************************************************************)
EXTENDS Integers, Sequences, FiniteSets, TLC

VARIABLES
  hm,     \* SpecHistory: the HistoryManager under test
  heap,   \* SpecHistory, SpecFilters: reference -> ImageData content
  held,   \* SpecHistory, SpecFilters: the buffer the caller created, or Null
  cm,     \* Spec: the CanvasManager
  ret,    \* what the last call returned
  last,   \* the last call made: its name and what it was given
  steps,  \* Spec: number of calls made so far (bounded)
  timeout,\* SpecDebounce: the arguments the pending timer of debounce holds
  burst   \* SpecDebounce: the requests made since the timer was last idle

hvars == <<hm, heap, held>>
cvars == <<cm>>
evars == <<timeout, burst>>
vars == <<hm, heap, held, cm, ret, last, steps, timeout, burst>>

(***************************************************************************)
(* Bounds of the model.                                                    *)
(***************************************************************************)
\* Longest history the caller of SpecHistory lets grow.
MaxEntries == 4

\* Values are records, so that any two of them can be compared.
Null == [null |-> TRUE]
Void == [void |-> TRUE]
Bool(b) == [bool |-> b]
Ref(n) == [ref |-> n]

Range(f) == {f[e] : e \in DOMAIN f}
Min(a, b) == IF a < b THEN a ELSE b
Max(a, b) == IF a > b THEN a ELSE b

(***************************************************************************)
(* ImageData: width, height and the RGBA bytes, row-major.                 *)
(***************************************************************************)
ImageData(data, width, height) == [width |-> width, height |-> height, data |-> data]

\* new Uint8ClampedArray(src): an element-wise copy.
CopyArray(src) == [i \in 1..Len(src) |-> src[i]]

(***************************************************************************)
(* Arithmetic of the filters.  A JavaScript number is modelled by an exact *)
(* fraction n/d (d > 0); NaN arises only from 0/0 and is handled where it  *)
(* arises.                                                                 *)
(***************************************************************************)
\* Math.round(n/d): the nearest integer, halves up.
MathRound(n, d) == (2 * n + d) \div (2 * d)

\* Storing n/d into a Uint8ClampedArray: clamped to [0,255], rounded to the
\* nearest integer, halves to even.
StoreClamped(n, d) ==
  IF n <= 0 THEN 0
  ELSE IF n >= 255 * d THEN 255
  ELSE LET q == n \div d
           twice == 2 * (n - q * d)
       IN  IF twice < d THEN q
           ELSE IF twice > d THEN q + 1
           ELSE IF q % 2 = 0 THEN q ELSE q + 1

\* Math.max(0, Math.min(255, Math.round(n/d)))
ClampRound(n, d) == Max(0, Min(255, MathRound(n, d)))

(***************************************************************************)
(* Pixel access.  Byte j (1-based) of data belongs to pixel (j-1) \div 4,  *)
(* channel (j-1) % 4; pixel (x, y) starts at offset (y * width + x) * 4.   *)
(***************************************************************************)
Channel(j) == (j - 1) % 4
PixelOf(j) == (j - 1) \div 4
XOf(img, j) == PixelOf(j) % img.width
YOf(img, j) == PixelOf(j) \div img.width
\* data[(y * width + x) * 4 + c]
At(img, x, y, c) == img.data[(y * img.width + x) * 4 + c + 1]
\* The byte of channel c of the pixel byte j belongs to.
Same(img, j, c) == img.data[PixelOf(j) * 4 + c + 1]
\* 1000 * (0.299 r + 0.587 g + 0.114 b) of the pixel byte j belongs to.
Luma1000(img, j) == 299 * Same(img, j, 0) + 587 * Same(img, j, 1) + 114 * Same(img, j, 2)
Luma1000At(img, x, y) == 299 * At(img, x, y, 0) + 587 * At(img, x, y, 1) + 114 * At(img, x, y, 2)

\* Sum of the function f over the finite set S of its arguments.
RECURSIVE Sum(_, _)
Sum(S, f) == IF S = {} THEN 0
             ELSE LET e == CHOOSE e \in S : TRUE IN f[e] + Sum(S \ {e}, f)

(***************************************************************************)
(* filters.ts: the point operators.                                        *)
(***************************************************************************)
grayscale(img) ==
  ImageData([j \in 1..Len(img.data) |->
               IF Channel(j) = 3 THEN img.data[j]
               ELSE MathRound(Luma1000(img, j), 1000)],
            img.width, img.height)

invert(img) ==
  ImageData([j \in 1..Len(img.data) |->
               IF Channel(j) = 3 THEN img.data[j] ELSE 255 - img.data[j]],
            img.width, img.height)

brightness_offset(img, value) ==
  ImageData([j \in 1..Len(img.data) |->
               IF Channel(j) = 3 THEN img.data[j]
               ELSE StoreClamped(img.data[j] + value, 1)],
            img.width, img.height)

brightness(img, value) ==
  ImageData([j \in 1..Len(img.data) |->
               IF Channel(j) = 3 THEN img.data[j]
               ELSE StoreClamped(img.data[j] * 100 + value * 255, 100)],
            img.width, img.height)

contrast(img, value) ==
  ImageData([j \in 1..Len(img.data) |->
               IF Channel(j) = 3 THEN img.data[j]
               ELSE StoreClamped((img.data[j] - 128) * (value + 100) + 12800, 100)],
            img.width, img.height)

saturation(img, value) ==
  ImageData([j \in 1..Len(img.data) |->
               IF Channel(j) = 3 THEN img.data[j]
               ELSE LET gray == Luma1000(img, j)
                    IN  StoreClamped(gray * 100 + (1000 * img.data[j] - gray) * (value + 100),
                                     100000)],
            img.width, img.height)

adjustRGB(img, r, g, b) ==
  ImageData([j \in 1..Len(img.data) |->
               CASE Channel(j) = 0 -> StoreClamped(img.data[j] * 100 + r * 255, 100)
                 [] Channel(j) = 1 -> StoreClamped(img.data[j] * 100 + g * 255, 100)
                 [] Channel(j) = 2 -> StoreClamped(img.data[j] * 100 + b * 255, 100)
                 [] OTHER -> img.data[j]],
            img.width, img.height)

(***************************************************************************)
(* filters.ts: the neighbourhood operators.                                *)
(***************************************************************************)
\* Box blur; radius is an integer here (the slider moves in steps of 0.5).
blur(img, radius) ==
  LET kernelSize == Max(1, 2 * radius + 1)
      halfKernel == kernelSize \div 2
      window == (-halfKernel..halfKernel) \X (-halfKernel..halfKernel)
      px(x, k) == Max(0, Min(img.width - 1, x + k[1]))
      py(y, k) == Max(0, Min(img.height - 1, y + k[2]))
  IN  ImageData([j \in 1..Len(img.data) |->
                   LET x == XOf(img, j)
                       y == YOf(img, j)
                       term == [k \in window |-> At(img, px(x, k), py(y, k), Channel(j))]
                   IN  MathRound(Sum(window, term), Cardinality(window))],
                img.width, img.height)

\* The pixels whose whole (2r+1)x(2r+1) neighbourhood lies inside the image.
Interior(img, j, r) ==
  /\ XOf(img, j) >= r /\ XOf(img, j) < img.width - r
  /\ YOf(img, j) >= r /\ YOf(img, j) < img.height - r

\* Sum over the four edge neighbours of the pixel of byte j, same channel.
Cross(img, j) ==
  LET x == XOf(img, j)
      y == YOf(img, j)
      c == Channel(j)
  IN  At(img, x, y - 1, c) + At(img, x - 1, y, c) + At(img, x + 1, y, c) + At(img, x, y + 1, c)

\* 3x3 kernel [0,-a,0; -a,1+4a,-a; 0,-a,0] with a = strength/100.
sharpen(img, strength) ==
  ImageData([j \in 1..Len(img.data) |->
               IF Channel(j) = 3 \/ ~Interior(img, j, 1) THEN img.data[j]
               ELSE StoreClamped(img.data[j] * (100 + 4 * strength) - strength * Cross(img, j),
                                 100)],
            img.width, img.height)

\* Pixels of the image, numbered row by row from 0.
Pixels(img) == 0..(img.width * img.height - 1)
\* Math.round(0.299 r + 0.587 g + 0.114 b) of pixel p.
GrayOf(img, p) == MathRound(Luma1000(img, p * 4 + 1), 1000)

\* normalizedCdf[v] for a histogram given as level: the level of each sample.
\* It is NaN (0/0) when every sample has the lowest level; the caller tests
\* NormalizedIsNaN first.
NormalizedIsNaN(level) ==
  LET lowest == CHOOSE m \in Range(level) : \A n \in Range(level) : m <= n
  IN  \A e \in DOMAIN level : level[e] = lowest
NormalizedCdf(level, v) ==
  LET total == Cardinality(DOMAIN level)
      lowest == CHOOSE m \in Range(level) : \A n \in Range(level) : m <= n
      cdfMin == Cardinality({e \in DOMAIN level : level[e] = lowest})
      cdf == Cardinality({e \in DOMAIN level : level[e] <= v})
  IN  IF cdf = 0 THEN 0 ELSE MathRound((cdf - cdfMin) * 255, total - cdfMin)

\* The first non-zero value of the cumulative histogram (cdfMin), and the
\* denominator totalPixels - cdfMin the normalization divides by.
CdfMin(level) ==
  LET lowest == CHOOSE m \in Range(level) : \A n \in Range(level) : m <= n
  IN  Cardinality({e \in DOMAIN level : level[e] = lowest})
CdfDenominator(level) == Cardinality(DOMAIN level) - CdfMin(level)

histogramEqualizationRGB(img, strength) ==
  ImageData([j \in 1..Len(img.data) |->
               IF Channel(j) = 3 THEN img.data[j]
               ELSE LET level == [p \in Pixels(img) |-> img.data[p * 4 + Channel(j) + 1]]
                    IN  IF NormalizedIsNaN(level) THEN 0
                        ELSE MathRound(img.data[j] * (100 - strength)
                                         + NormalizedCdf(level, img.data[j]) * strength,
                                       100)],
            img.width, img.height)

histogramEqualization(img, strength, mode) ==
  IF mode = "rgb" THEN histogramEqualizationRGB(img, strength)
  ELSE LET level == [p \in Pixels(img) |-> GrayOf(img, p)]
       IN  ImageData([j \in 1..Len(img.data) |->
                        IF Channel(j) = 3 THEN img.data[j]
                        ELSE IF NormalizedIsNaN(level) THEN 0
                        ELSE LET originalGray == level[PixelOf(j)]
                                 newGray == MathRound(originalGray * (100 - strength)
                                              + NormalizedCdf(level, originalGray) * strength,
                                            100)
                             IN  IF originalGray = 0 THEN newGray
                                 ELSE ClampRound(img.data[j] * newGray, originalGray)],
                     img.width, img.height)

(***************************************************************************)
(* advancedFilters.ts                                                      *)
(***************************************************************************)
\* The (2r+1)x(2r+1) neighbourhood offsets.
Window(r) == (-r..r) \X (-r..r)

medianFilter(img, radius) ==
  ImageData([j \in 1..Len(img.data) |->
               IF Channel(j) = 3 \/ ~Interior(img, j, radius) THEN img.data[j]
               ELSE LET values == [k \in Window(radius) |->
                                     At(img, XOf(img, j) + k[1], YOf(img, j) + k[2], Channel(j))]
                        mid == Cardinality(Window(radius)) \div 2
                    IN  CHOOSE v \in Range(values) :
                          /\ Cardinality({k \in Window(radius) : values[k] < v}) <= mid
                          /\ Cardinality({k \in Window(radius) : values[k] <= v}) > mid],
            img.width, img.height)

\* sigma is an integer here.  With sigma = 0 the kernel is exp(-0/0) = NaN,
\* every pixel is interior (radius 0) and Math.round(NaN) stores 0.  With
\* sigma > 0 the weights are irrational: the operator is defined only where
\* no pixel is interior, and has no value elsewhere.
gaussianBlur(img, sigma) ==
  LET radius == 3 * sigma
  IN  ImageData([j \in 1..Len(img.data) |->
                   IF Channel(j) = 3 \/ ~Interior(img, j, radius) THEN img.data[j]
                   ELSE IF sigma = 0 THEN 0
                   ELSE CHOOSE weighted \in {} : TRUE],
                img.width, img.height)

laplacianSharpen(img) ==
  ImageData([j \in 1..Len(img.data) |->
               IF Channel(j) = 3 \/ ~Interior(img, j, 1) THEN img.data[j]
               ELSE StoreClamped(img.data[j] + 4 * img.data[j] - Cross(img, j), 1)],
            img.width, img.height)

\* |a|
Abs(a) == IF a < 0 THEN -a ELSE a

\* 4 * (gx^2 + gy^2) / 1000^2 for gx, gy in thousandths, as its integer part
\* and whether a fractional part remains; computed limb by limb in base 1000
\* to stay within 32-bit integers.
FourSquares(gx, gy) ==
  LET a1 == Abs(gx) \div 1000
      b1 == Abs(gx) % 1000
      a2 == Abs(gy) \div 1000
      b2 == Abs(gy) % 1000
      c0 == 4 * (b1 * b1 + b2 * b2)
      c1 == 8 * (a1 * b1 + a2 * b2) + c0 \div 1000
      c2 == 4 * (a1 * a1 + a2 * a2) + c1 \div 1000
  IN  [whole |-> c2, rest |-> (c0 % 1000 # 0) \/ (c1 % 1000 # 0)]

\* Storing Math.min(255, Math.sqrt(gx^2 + gy^2)) into a Uint8ClampedArray,
\* for gx, gy given in thousandths: the byte k with 2k-1 <= 2*magnitude <=
\* 2k+1, halves going to the even neighbour.
StoreMagnitude(gx, gy) ==
  LET q == FourSquares(gx, gy)
      above(m) == q.whole > m * m \/ (q.whole = m * m /\ q.rest)
      equal(m) == q.whole = m * m /\ ~q.rest
  IN  IF above(510) \/ equal(510) THEN 255
      ELSE CHOOSE k \in 0..255 :
             /\ k = 0 \/ above(2 * k - 1) \/ (equal(2 * k - 1) /\ k % 2 = 0)
             /\ ~above(2 * k + 1) /\ (equal(2 * k + 1) => k % 2 = 0)

\* Gradient magnitude with 3x3 kernels kx, ky (functions of the offset); the
\* result array starts zeroed and only interior pixels are written.
EdgeDetection3(img, kx, ky) ==
  ImageData([j \in 1..Len(img.data) |->
               IF ~Interior(img, j, 1) THEN 0
               ELSE IF Channel(j) = 3 THEN 255
               ELSE LET gray == [k \in Window(1) |->
                                   Luma1000At(img, XOf(img, j) + k[1], YOf(img, j) + k[2])]
                        gx == Sum(Window(1), [k \in Window(1) |-> gray[k] * kx[k]])
                        gy == Sum(Window(1), [k \in Window(1) |-> gray[k] * ky[k]])
                    IN  StoreMagnitude(gx, gy)],
            img.width, img.height)

sobelEdgeDetection(img) ==
  EdgeDetection3(img,
                 [k \in Window(1) |-> k[1] * (IF k[2] = 0 THEN 2 ELSE 1)],
                 [k \in Window(1) |-> k[2] * (IF k[1] = 0 THEN 2 ELSE 1)])

prewittEdgeDetection(img) ==
  EdgeDetection3(img, [k \in Window(1) |-> k[1]], [k \in Window(1) |-> k[2]])

robertsEdgeDetection(img) ==
  ImageData([j \in 1..Len(img.data) |->
               IF XOf(img, j) >= img.width - 1 \/ YOf(img, j) >= img.height - 1 THEN 0
               ELSE IF Channel(j) = 3 THEN 255
               ELSE LET x == XOf(img, j)
                        y == YOf(img, j)
                        gx == Luma1000At(img, x, y) - Luma1000At(img, x + 1, y + 1)
                        gy == Luma1000At(img, x + 1, y) - Luma1000At(img, x, y + 1)
                    IN  StoreMagnitude(gx, gy)],
            img.width, img.height)

(***************************************************************************)
(* filters.ts: geometry.                                                   *)
(***************************************************************************)
\* Reading a typed array past its end gives undefined, stored as 0.
ReadByte(data, offset) == IF offset + 1 \in DOMAIN data THEN data[offset + 1] ELSE 0

\* The source pixels <<column, row>> the loops of crop read.
cropReads(img, rect) ==
  LET cropX == Max(0, Min(rect.x, img.width))
      cropY == Max(0, Min(rect.y, img.height))
      cropWidth == Max(1, Min(rect.width, img.width - cropX))
      cropHeight == Max(1, Min(rect.height, img.height - cropY))
  IN  {<<cropX + px, cropY + py>> : px \in 0..(cropWidth - 1), py \in 0..(cropHeight - 1)}

crop(img, rect) ==
  LET cropX == Max(0, Min(rect.x, img.width))
      cropY == Max(0, Min(rect.y, img.height))
      cropWidth == Max(1, Min(rect.width, img.width - cropX))
      cropHeight == Max(1, Min(rect.height, img.height - cropY))
  IN  ImageData([j \in 1..(cropWidth * cropHeight * 4) |->
                   LET px == PixelOf(j) % cropWidth
                       py == PixelOf(j) \div cropWidth
                   IN  ReadByte(img.data,
                                ((cropY + py) * img.width + (cropX + px)) * 4 + Channel(j))],
                cropWidth, cropHeight)

rotateImage_270as90(img, angle) ==
  LET swap == angle = 90 \/ angle = 270
      newWidth == IF swap THEN img.height ELSE img.width
      newHeight == IF swap THEN img.width ELSE img.height
  IN  ImageData([j \in 1..Len(img.data) |->
                   LET dstX == PixelOf(j) % newWidth
                       dstY == PixelOf(j) \div newWidth
                   IN  CASE angle = 90 \/ angle = 270 ->
                              At(img, dstY, img.height - 1 - dstX, Channel(j))
                         [] angle = 180 -> At(img, img.width - 1 - dstX, img.height - 1 - dstY,
                                              Channel(j))
                         [] OTHER -> At(img, dstX, dstY, Channel(j))],
                newWidth, newHeight)

rotateImage(img, angle) ==
  LET swap == angle = 90 \/ angle = 270
      newWidth == IF swap THEN img.height ELSE img.width
      newHeight == IF swap THEN img.width ELSE img.height
  IN  ImageData([j \in 1..Len(img.data) |->
                   LET dstX == PixelOf(j) % newWidth
                       dstY == PixelOf(j) \div newWidth
                   IN  CASE angle = 90 -> At(img, dstY, img.height - 1 - dstX, Channel(j))
                         [] angle = 180 -> At(img, img.width - 1 - dstX, img.height - 1 - dstY,
                                              Channel(j))
                         [] angle = 270 -> At(img, img.width - 1 - dstY, dstX, Channel(j))
                         [] OTHER -> At(img, dstX, dstY, Channel(j))],
                newWidth, newHeight)

flipImage(img, horizontal) ==
  ImageData([j \in 1..Len(img.data) |->
               IF horizontal
                 THEN At(img, img.width - 1 - XOf(img, j), YOf(img, j), Channel(j))
                 ELSE At(img, XOf(img, j), img.height - 1 - YOf(img, j), Channel(j))],
            img.width, img.height)

(***************************************************************************)
(* filters.ts: applyFilter(imageData, params).  A FilterParams is a record *)
(* holding type and the optional fields that are present.                  *)
(***************************************************************************)
\* Destructuring with a default: params.f, or dflt when f is absent.
Field(params, f, dflt) == IF f \in DOMAIN params THEN params[f] ELSE dflt

applyFilter(imageData, params) ==
  LET type == params.type
      value == Field(params, "value", 0)
      radius == Field(params, "radius", 1)
      r == Field(params, "r", 0)
      g == Field(params, "g", 0)
      b == Field(params, "b", 0)
      strength == Field(params, "strength", 100)
      mode == Field(params, "mode", "luminance")
      sigma == Field(params, "sigma", 1)
  IN  CASE type = "grayscale" -> grayscale(imageData)
        [] type = "invert" -> invert(imageData)
        [] type = "brightness" -> brightness(imageData, value)
        [] type = "contrast" -> contrast(imageData, value)
        [] type = "saturation" -> saturation(imageData, value)
        [] type = "adjustRGB" -> adjustRGB(imageData, r, g, b)
        [] type = "blur" -> blur(imageData, radius)
        [] type = "sharpen" -> sharpen(imageData, 100)
        [] type = "histogramEqualization" -> histogramEqualization(imageData, strength, mode)
        [] type = "medianFilter" -> medianFilter(imageData, radius)
        [] type = "gaussianBlur" -> gaussianBlur(imageData, sigma)
        [] type = "laplacianSharpen" -> laplacianSharpen(imageData)
        [] type = "sobelEdge" -> sobelEdgeDetection(imageData)
        [] type = "prewittEdge" -> prewittEdgeDetection(imageData)
        [] type = "robertsEdge" -> robertsEdgeDetection(imageData)
        [] type = "crop" -> IF "cropRect" \in DOMAIN params
                              THEN crop(imageData, params.cropRect) ELSE imageData
        [] OTHER -> imageData

\* The tags whose case calls a filter function, which allocates its result.
FilterTypes ==
  {"grayscale", "invert", "brightness", "contrast", "saturation", "adjustRGB", "blur",
   "sharpen", "histogramEqualization", "medianFilter", "gaussianBlur", "laplacianSharpen",
   "sobelEdge", "prewittEdge", "robertsEdge"}

\* applyFilter returns its argument itself: crop without a rectangle and
\* the default case.
applyFilterReturnsArgument(params) ==
  IF params.type = "crop" THEN "cropRect" \notin DOMAIN params
  ELSE params.type \notin FilterTypes

(***************************************************************************)
(* HistoryManager.  An entry is a HistoryState [imageData |-> buffer]; the *)
(* timestamp field is written by addState and read nowhere, and is left    *)
(* out.  The operators take the HistoryManager's fields as a record and    *)
(* return the fields after the call.                                       *)
(***************************************************************************)
DefaultMaxHistorySize == 50

NewHistoryManager ==
  [history |-> <<>>, currentIndex |-> -1, maxHistorySize |-> DefaultMaxHistorySize]

canUndo(h) == h.currentIndex > 0

canRedo(h) == h.currentIndex < Len(h.history) - 1

\* addState, given the clone it stores.
addState_keepRedo(h, clone) ==
  LET pushed == Append(h.history, [imageData |-> clone])
  IN  IF Len(pushed) > h.maxHistorySize
        THEN [h EXCEPT !.history = Tail(pushed), !.currentIndex = Len(pushed) - 2]
        ELSE [h EXCEPT !.history = pushed, !.currentIndex = Len(pushed) - 1]

addState_noShift(h, clone) ==
  LET kept == IF h.currentIndex < Len(h.history) - 1
                THEN SubSeq(h.history, 1, h.currentIndex + 1)
                ELSE h.history
      pushed == Append(kept, [imageData |-> clone])
  IN  IF Len(pushed) > h.maxHistorySize
        THEN [h EXCEPT !.history = Tail(pushed), !.currentIndex = Len(pushed) - 1]
        ELSE [h EXCEPT !.history = pushed, !.currentIndex = Len(pushed) - 1]

addState(h, clone) ==
  LET kept == IF h.currentIndex < Len(h.history) - 1
                THEN SubSeq(h.history, 1, h.currentIndex + 1)
                ELSE h.history
      pushed == Append(kept, [imageData |-> clone])
      index == Len(pushed) - 1
  IN  IF Len(pushed) > h.maxHistorySize
        THEN [h EXCEPT !.history = Tail(pushed), !.currentIndex = index - 1]
        ELSE [h EXCEPT !.history = pushed, !.currentIndex = index]

\* undo/redo: the fields after the call and the stored buffer to clone
\* (Null when the call returns null).
undo_noGuard(h) ==
  [h |-> [h EXCEPT !.currentIndex = h.currentIndex - 1],
   entry |-> IF h.currentIndex >= 1 /\ h.currentIndex <= Len(h.history)
               THEN h.history[h.currentIndex].imageData ELSE Null]

undo(h) ==
  IF canUndo(h)
    THEN [h |-> [h EXCEPT !.currentIndex = h.currentIndex - 1],
          entry |-> h.history[h.currentIndex].imageData]
    ELSE [h |-> h, entry |-> Null]

redo_staleEntry(h) ==
  IF canRedo(h)
    THEN [h |-> [h EXCEPT !.currentIndex = h.currentIndex + 1],
          entry |-> h.history[h.currentIndex + 1].imageData]
    ELSE [h |-> h, entry |-> Null]

redo(h) ==
  IF canRedo(h)
    THEN [h |-> [h EXCEPT !.currentIndex = h.currentIndex + 1],
          entry |-> h.history[h.currentIndex + 2].imageData]
    ELSE [h |-> h, entry |-> Null]

getCurrentState(h) ==
  IF h.currentIndex >= 0 /\ h.currentIndex < Len(h.history)
    THEN h.history[h.currentIndex + 1].imageData
    ELSE Null

clear(h) == [h EXCEPT !.history = <<>>, !.currentIndex = -1]

setMaxHistorySize_noTrim(h, size) == [h EXCEPT !.maxHistorySize = Max(1, size)]

setMaxHistorySize(h, size) ==
  LET m == Max(1, size)
      removeCount == Len(h.history) - m
  IN  IF Len(h.history) > m
        THEN [h EXCEPT !.maxHistorySize = m,
                       !.history = SubSeq(h.history, removeCount + 1, Len(h.history)),
                       !.currentIndex = Max(0, h.currentIndex - removeCount)]
        ELSE [h EXCEPT !.maxHistorySize = m]

(***************************************************************************)
(* SpecHistory: a caller drives one HistoryManager.  The caller creates    *)
(* buffers (held), passes them to addState, keeps the buffer the last call *)
(* returned (ret), and writes into the buffers it can reach.               *)
(* Buffers are objects of a heap.  After every call the unreachable        *)
(* objects are collected and the references renumbered in the order the    *)
(* roots reach them, so that a state does not depend on allocation order.  *)
(***************************************************************************)
\* Gray levels of the first byte of the 1x1 buffers the caller works with.
Levels == {0, 255}

CallerImages == {ImageData(<<v, 0, 0, 255>>, 1, 1) : v \in Levels}

\* The byte the caller overwrites.
WriteIndices == {1}

\* Arguments the caller gives setMaxHistorySize.
SizeArgs == -1..MaxEntries

\* A reference no object of the (renumbered) heap h has.
NewRef(h) == Ref(Cardinality(DOMAIN h))

\* HistoryManager.cloneImageData on the heap: the heap with the clone in it,
\* and the clone's reference.
cloneImageData_alias(h, r) == [heap |-> h, ref |-> r]

cloneImageData(h, r) ==
  LET c == NewRef(h)
      clonedData == CopyArray(h[r].data)
  IN  [heap |-> [x \in DOMAIN h \cup {c} |->
                   IF x = c THEN ImageData(clonedData, h[r].width, h[r].height)
                            ELSE h[x]],
       ref |-> c]

\* The buffers a HistoryManager stores, in order.
Stored(h) == [i \in 1..Len(h.history) |-> h.history[i].imageData]


\* The buffers the caller can reach: those it created and the last one returned.
CallerRefs == {r \in {held, ret} : r \in DOMAIN heap}

\* The roots in a fixed order: stored entries, caller's buffers, last return.
Roots(h, hl, rt, hp) == Stored(h) \o SelectSeq(<<hl, rt>>, LAMBDA r : r \in DOMAIN hp)

\* The number of distinct references that first occur in roots before r does.
Rank(roots, r) ==
  LET first == CHOOSE i \in 1..Len(roots) :
                 roots[i] = r /\ \A j \in 1..(i - 1) : roots[j] # r
  IN  Cardinality({i \in 1..(first - 1) : \A j \in 1..(i - 1) : roots[j] # roots[i]})

\* The state after a call: unreachable buffers collected, references renumbered.
Settle(h, hl, rt, hp) ==
  LET roots == Roots(h, hl, rt, hp)
      new(r) == Ref(Rank(roots, r))
  IN  /\ hm' = [h EXCEPT !.history =
                   [i \in 1..Len(h.history) |-> [imageData |-> new(h.history[i].imageData)]]]
      /\ held' = IF hl \in DOMAIN hp THEN new(hl) ELSE hl
      /\ ret' = IF rt \in DOMAIN hp THEN new(rt) ELSE rt
      /\ heap' = [x \in {new(r) : r \in Range(roots)} |->
                   hp[CHOOSE r \in Range(roots) : new(r) = x]]

HistoryInit ==
  /\ hm = NewHistoryManager
  /\ heap = <<>>
  /\ held = Null

\* const img = new ImageData(...)
HNewImageData(img) ==
  /\ held = Null
  /\ LET r == NewRef(heap)
     IN  Settle(hm, r, ret,
                [x \in DOMAIN heap \cup {r} |-> IF x = r THEN img ELSE heap[x]])
  /\ last' = [op |-> "new ImageData", arg |-> Void]

\* The caller drops a buffer it created.
HRelease ==
  /\ held # Null
  /\ Settle(hm, Null, ret, heap)
  /\ last' = [op |-> "release", arg |-> Void]

\* The caller writes a byte of a buffer it can reach: buffer.data[i] = v.
HWrite(r, i, v) ==
  /\ r \in CallerRefs
  /\ i \in 1..Len(heap[r].data)
  /\ heap[r].data[i] # v
  /\ Settle(hm, held, ret, [heap EXCEPT ![r].data[i] = v])
  /\ last' = [op |-> "write", arg |-> Void]

\* historyManager.addState(held); arg: whether the cursor was before the tail and
\* whether the history was full, before the call.
HAddState ==
  /\ held # Null
  /\ Min(hm.currentIndex + 2, hm.maxHistorySize) <= MaxEntries
  /\ LET c == cloneImageData(heap, held)
     IN  Settle(addState(hm, c.ref), held, Void, c.heap)
  /\ last' = [op |-> "addState",
              arg |-> [redo |-> canRedo(hm), full |-> Len(hm.history) = hm.maxHistorySize]]

\* A call that returns a clone of a stored buffer, or null.
HReturn(h, entry) ==
  IF entry = Null
    THEN Settle(h, held, Null, heap)
    ELSE LET c == cloneImageData(heap, entry)
         IN  Settle(h, held, c.ref, c.heap)

\* historyManager.undo(); arg: what canUndo() reported before the call.
HUndo ==
  /\ HReturn(undo(hm).h, undo(hm).entry)
  /\ last' = [op |-> "undo", arg |-> Bool(canUndo(hm))]

\* historyManager.redo(); arg: what canRedo() reported before the call.
HRedo ==
  /\ HReturn(redo(hm).h, redo(hm).entry)
  /\ last' = [op |-> "redo", arg |-> Bool(canRedo(hm))]

HGetCurrentState ==
  /\ HReturn(hm, getCurrentState(hm))
  /\ last' = [op |-> "getCurrentState", arg |-> Void]

HClear ==
  /\ Settle(clear(hm), held, Void, heap)
  /\ last' = [op |-> "clear", arg |-> Void]

\* historyManager.setMaxHistorySize(size); arg: whether entries were removed.
HSetMaxHistorySize(size) ==
  /\ Settle(setMaxHistorySize(hm, size), held, Void, heap)
  /\ last' = [op |-> "setMaxHistorySize", arg |-> Bool(Len(hm.history) > Max(1, size))]

NextHistory ==
  /\ UNCHANGED <<cvars, steps, evars>>
  /\ \/ \E img \in CallerImages : HNewImageData(img)
     \/ HRelease
     \/ \E r \in CallerRefs, i \in WriteIndices, v \in Levels : HWrite(r, i, v)
     \/ HAddState
     \/ HUndo
     \/ HRedo
     \/ HGetCurrentState
     \/ HClear
     \/ \E size \in SizeArgs : HSetMaxHistorySize(size)

(***************************************************************************)
(* CanvasManager (useCanvas.ts).  The manager is a record of its fields;   *)
(* a method is an operator from the manager before the call to the manager *)
(* after it.  The manager never writes into a buffer it holds, so buffers  *)
(* are values here and a clone is an element-wise copy.                    *)
(***************************************************************************)
NeutralAdjustments ==
  [brightness |-> 0, contrast |-> 0, saturation |-> 0, blur |-> 0,
   rgbR |-> 0, rgbG |-> 0, rgbB |-> 0,
   histogramEqualizationStrength |-> 0, histogramEqualizationMode |-> "luminance",
   medianFilterRadius |-> 0, gaussianBlurSigma |-> 0, sharpenStrength |-> 0,
   laplacianSharpen |-> FALSE, grayscale |-> FALSE, invert |-> FALSE]

\* A canvas element: its size and the pixels written since it was last
\* sized, as a function from <<x, y>> to <<r, g, b, a>>; every other pixel
\* is transparent black.  A new canvas element is 300 x 150.
NewCanvas == [width |-> 300, height |-> 150, pixels |-> <<>>]

\* Assigning canvas.width / canvas.height clears the canvas.
Resize(canvas, width, height) == [width |-> width, height |-> height, pixels |-> <<>>]

\* The bytes a canvas keeps for a pixel: a fully transparent pixel loses its
\* colour, an opaque one is kept; a partly transparent one is premultiplied
\* with a loss the browser chooses, and has no value here.
Kept(rgba) ==
  CASE rgba[4] = 255 -> rgba
    [] rgba[4] = 0 -> <<0, 0, 0, 0>>
    [] OTHER -> CHOOSE premultiplied \in {} : TRUE

\* ctx.putImageData(img, 0, 0) and ctx.drawImage(bitmap, 0, 0) on a cleared
\* or opaque canvas: the pixels of img inside the canvas replace what was
\* there.
putImageData(canvas, img) ==
  LET inside == {xy \in (0..(img.width - 1)) \X (0..(img.height - 1)) :
                   xy[1] < canvas.width /\ xy[2] < canvas.height}
  IN  [canvas EXCEPT !.pixels =
         [xy \in DOMAIN canvas.pixels \cup inside |->
            IF xy \in inside
              THEN Kept(<<At(img, xy[1], xy[2], 0), At(img, xy[1], xy[2], 1),
                          At(img, xy[1], xy[2], 2), At(img, xy[1], xy[2], 3)>>)
              ELSE canvas.pixels[xy]]]

\* ctx.getImageData(0, 0, width, height)
getImageData(canvas, width, height) ==
  ImageData([j \in 1..(width * height * 4) |->
               LET xy == <<PixelOf(j) % width, PixelOf(j) \div width>>
               IN  IF xy \in DOMAIN canvas.pixels
                     THEN canvas.pixels[xy][Channel(j) + 1] ELSE 0],
            width, height)

canvasCloneImageData(imageData) ==
  ImageData(CopyArray(imageData.data), imageData.width, imageData.height)

NewCanvasManager ==
  [offscreenCanvas |-> NewCanvas,
   originalImageData |-> Null,
   currentImageData |-> Null,
   historyManager |-> NewHistoryManager,
   cropRect |-> Null,
   isProcessing |-> FALSE,
   currentAdjustments |-> NeutralAdjustments]

\* updatePreview(mode): the visible canvas is not part of the model; the
\* processed and split modes put the current buffer on the offscreen canvas.
updatePreview(c, mode) ==
  IF c.currentImageData = Null \/ mode = "original" THEN c
  ELSE [c EXCEPT !.offscreenCanvas = putImageData(c.offscreenCanvas, c.currentImageData)]

updateAdjustments_grayscaleClearsInvert(c, params) ==
  LET type == params.type
      value == Field(params, "value", 0)
      radius == Field(params, "radius", 1)
      r == Field(params, "r", 0)
      g == Field(params, "g", 0)
      b == Field(params, "b", 0)
      strength == Field(params, "strength", 0)
      mode == Field(params, "mode", "luminance")
      sigma == Field(params, "sigma", 0)
      a == c.currentAdjustments
  IN  [c EXCEPT !.currentAdjustments =
         CASE type = "brightness" -> [a EXCEPT !.brightness = value]
           [] type = "contrast" -> [a EXCEPT !.contrast = value]
           [] type = "saturation" -> [a EXCEPT !.saturation = value]
           [] type = "blur" -> [a EXCEPT !.blur = radius]
           [] type = "adjustRGB" -> [a EXCEPT !.rgbR = r, !.rgbG = g, !.rgbB = b]
           [] type = "histogramEqualization" ->
                [a EXCEPT !.histogramEqualizationStrength = strength,
                          !.histogramEqualizationMode = mode]
           [] type = "medianFilter" -> [a EXCEPT !.medianFilterRadius = value]
           [] type = "gaussianBlur" -> [a EXCEPT !.gaussianBlurSigma = sigma]
           [] type = "sharpen" -> [a EXCEPT !.sharpenStrength = value]
           [] type = "laplacianSharpen" -> [a EXCEPT !.laplacianSharpen = ~a.laplacianSharpen]
           [] type = "grayscale" -> [a EXCEPT !.grayscale = ~a.grayscale, !.invert = FALSE]
           [] type = "invert" -> [a EXCEPT !.invert = ~a.invert]
           [] OTHER -> a]

updateAdjustments_keepsMode(c, params) ==
  LET type == params.type
      value == Field(params, "value", 0)
      radius == Field(params, "radius", 1)
      r == Field(params, "r", 0)
      g == Field(params, "g", 0)
      b == Field(params, "b", 0)
      strength == Field(params, "strength", 0)
      mode == Field(params, "mode", c.currentAdjustments.histogramEqualizationMode)
      sigma == Field(params, "sigma", 0)
      a == c.currentAdjustments
  IN  [c EXCEPT !.currentAdjustments =
         CASE type = "brightness" -> [a EXCEPT !.brightness = value]
           [] type = "contrast" -> [a EXCEPT !.contrast = value]
           [] type = "saturation" -> [a EXCEPT !.saturation = value]
           [] type = "blur" -> [a EXCEPT !.blur = radius]
           [] type = "adjustRGB" -> [a EXCEPT !.rgbR = r, !.rgbG = g, !.rgbB = b]
           [] type = "histogramEqualization" ->
                [a EXCEPT !.histogramEqualizationStrength = strength,
                          !.histogramEqualizationMode = mode]
           [] type = "medianFilter" -> [a EXCEPT !.medianFilterRadius = value]
           [] type = "gaussianBlur" -> [a EXCEPT !.gaussianBlurSigma = sigma]
           [] type = "sharpen" -> [a EXCEPT !.sharpenStrength = value]
           [] type = "laplacianSharpen" -> [a EXCEPT !.laplacianSharpen = ~a.laplacianSharpen]
           [] type = "grayscale" -> [a EXCEPT !.grayscale = ~a.grayscale]
           [] type = "invert" -> [a EXCEPT !.invert = ~a.invert]
           [] OTHER -> a]

updateAdjustments(c, params) ==
  LET type == params.type
      value == Field(params, "value", 0)
      radius == Field(params, "radius", 1)
      r == Field(params, "r", 0)
      g == Field(params, "g", 0)
      b == Field(params, "b", 0)
      strength == Field(params, "strength", 0)
      mode == Field(params, "mode", "luminance")
      sigma == Field(params, "sigma", 0)
      a == c.currentAdjustments
  IN  [c EXCEPT !.currentAdjustments =
         CASE type = "brightness" -> [a EXCEPT !.brightness = value]
           [] type = "contrast" -> [a EXCEPT !.contrast = value]
           [] type = "saturation" -> [a EXCEPT !.saturation = value]
           [] type = "blur" -> [a EXCEPT !.blur = radius]
           [] type = "adjustRGB" -> [a EXCEPT !.rgbR = r, !.rgbG = g, !.rgbB = b]
           [] type = "histogramEqualization" ->
                [a EXCEPT !.histogramEqualizationStrength = strength,
                          !.histogramEqualizationMode = mode]
           [] type = "medianFilter" -> [a EXCEPT !.medianFilterRadius = value]
           [] type = "gaussianBlur" -> [a EXCEPT !.gaussianBlurSigma = sigma]
           [] type = "sharpen" -> [a EXCEPT !.sharpenStrength = value]
           [] type = "laplacianSharpen" -> [a EXCEPT !.laplacianSharpen = ~a.laplacianSharpen]
           [] type = "grayscale" -> [a EXCEPT !.grayscale = ~a.grayscale]
           [] type = "invert" -> [a EXCEPT !.invert = ~a.invert]
           [] OTHER -> a]

\* One "if (condition) result = applyFilter(result, params)" of
\* applyAllAdjustments: the dispatch it makes, if any.
Step(condition, params) == IF condition THEN <<params>> ELSE <<>>

Dispatches_sharpenBeforeBlur(a) ==
     Step(a.brightness # 0, [type |-> "brightness", value |-> a.brightness])
  \o Step(a.contrast # 0, [type |-> "contrast", value |-> a.contrast])
  \o Step(a.saturation # 0, [type |-> "saturation", value |-> a.saturation])
  \o Step(a.rgbR # 0 \/ a.rgbG # 0 \/ a.rgbB # 0,
          [type |-> "adjustRGB", r |-> a.rgbR, g |-> a.rgbG, b |-> a.rgbB])
  \o Step(a.grayscale, [type |-> "grayscale"])
  \o Step(a.invert, [type |-> "invert"])
  \o Step(a.sharpenStrength > 0, [type |-> "sharpen", value |-> a.sharpenStrength])
  \o Step(a.blur > 0, [type |-> "blur", radius |-> a.blur])
  \o Step(a.histogramEqualizationStrength > 0,
          [type |-> "histogramEqualization",
           strength |-> a.histogramEqualizationStrength,
           mode |-> a.histogramEqualizationMode])
  \o Step(a.medianFilterRadius > 0, [type |-> "medianFilter", radius |-> a.medianFilterRadius])
  \o Step(a.gaussianBlurSigma > 0, [type |-> "gaussianBlur", sigma |-> a.gaussianBlurSigma])
  \o Step(a.laplacianSharpen, [type |-> "laplacianSharpen"])

\* The dispatches applyAllAdjustments makes for the adjustments a, in the
\* order it makes them.
Dispatches(a) ==
     Step(a.brightness # 0, [type |-> "brightness", value |-> a.brightness])
  \o Step(a.contrast # 0, [type |-> "contrast", value |-> a.contrast])
  \o Step(a.saturation # 0, [type |-> "saturation", value |-> a.saturation])
  \o Step(a.rgbR # 0 \/ a.rgbG # 0 \/ a.rgbB # 0,
          [type |-> "adjustRGB", r |-> a.rgbR, g |-> a.rgbG, b |-> a.rgbB])
  \o Step(a.grayscale, [type |-> "grayscale"])
  \o Step(a.invert, [type |-> "invert"])
  \o Step(a.blur > 0, [type |-> "blur", radius |-> a.blur])
  \o Step(a.sharpenStrength > 0, [type |-> "sharpen", value |-> a.sharpenStrength])
  \o Step(a.histogramEqualizationStrength > 0,
          [type |-> "histogramEqualization",
           strength |-> a.histogramEqualizationStrength,
           mode |-> a.histogramEqualizationMode])
  \o Step(a.medianFilterRadius > 0, [type |-> "medianFilter", radius |-> a.medianFilterRadius])
  \o Step(a.gaussianBlurSigma > 0, [type |-> "gaussianBlur", sigma |-> a.gaussianBlurSigma])
  \o Step(a.laplacianSharpen, [type |-> "laplacianSharpen"])

\* result = applyFilter(result, params) for each dispatch in turn.
RECURSIVE ApplyEach(_, _)
ApplyEach(result, dispatches) ==
  IF dispatches = <<>> THEN result
  ELSE ApplyEach(applyFilter(result, Head(dispatches)), Tail(dispatches))

applyAllAdjustments_fromCurrent(c) ==
  ApplyEach(canvasCloneImageData(c.currentImageData), Dispatches(c.currentAdjustments))

applyAllAdjustments(c) ==
  ApplyEach(canvasCloneImageData(c.originalImageData), Dispatches(c.currentAdjustments))

loadImage_noClear(c, bitmap) ==
  LET drawn == putImageData(Resize(c.offscreenCanvas, bitmap.width, bitmap.height), bitmap)
      original == getImageData(drawn, bitmap.width, bitmap.height)
      current == canvasCloneImageData(original)
  IN  updatePreview([c EXCEPT !.offscreenCanvas = drawn,
                              !.originalImageData = original,
                              !.currentImageData = current,
                              !.historyManager =
                                 addState(c.historyManager, canvasCloneImageData(current))],
                    "processed")

\* loadImage after createImageBitmap resolved with bitmap; nothing of the
\* manager is read or written before that.
loadImage(c, bitmap) ==
  LET drawn == putImageData(Resize(c.offscreenCanvas, bitmap.width, bitmap.height), bitmap)
      original == getImageData(drawn, bitmap.width, bitmap.height)
      current == canvasCloneImageData(original)
  IN  updatePreview([c EXCEPT !.offscreenCanvas = drawn,
                              !.originalImageData = original,
                              !.currentImageData = current,
                              !.historyManager =
                                 addState(clear(c.historyManager), canvasCloneImageData(current))],
                    "processed")

loadImageRejected_cleared(c) ==
  [c EXCEPT !.historyManager = clear(c.historyManager)]

\* loadImage when createImageBitmap rejects: the await throws as the first
\* statement of the try block, the catch block logs and throws a new Error;
\* no field of the manager is assigned on the way.
loadImageRejected(c) == c

applyFilterReturns_ignoreBusy(c) == c.originalImageData = Null

\* The guard applyFilter returns on.
applyFilterReturns(c) == c.originalImageData = Null \/ c.isProcessing

\* applyFilter(params); during is the params of an applyFilter call that
\* arrives while this one is in flight, or Null when none does.
RECURSIVE canvasApplyFilter(_, _, _)
canvasApplyFilter_overwrite(c, params, during) ==
  IF applyFilterReturns(c) THEN c
  ELSE LET updated == updateAdjustments(c, params)
           result == applyAllAdjustments(updated)
       IN  updatePreview([updated EXCEPT !.currentImageData = result,
                                         !.originalImageData = result],
                         "processed")

canvasApplyFilter_bakes(c, params, during) ==
  IF applyFilterReturns(c) THEN c
  ELSE LET updated == updateAdjustments([c EXCEPT !.isProcessing = TRUE], params)
           composed == [updated EXCEPT !.currentImageData = applyAllAdjustments(updated)]
           shown == [updatePreview(composed, "processed") EXCEPT !.isProcessing = FALSE]
       IN  [shown EXCEPT !.historyManager =
              addState(c.historyManager, canvasCloneImageData(shown.currentImageData))]

canvasApplyFilter(c, params, during) ==
  IF applyFilterReturns(c) THEN c
  ELSE LET updated == updateAdjustments([c EXCEPT !.isProcessing = TRUE], params)
           reentered == IF during = Null THEN updated
                        ELSE canvasApplyFilter(updated, during, Null)
           composed == [reentered EXCEPT !.currentImageData = applyAllAdjustments(reentered)]
       IN  [updatePreview(composed, "processed") EXCEPT !.isProcessing = FALSE]

\* The statements of the try block of applyFilter that can throw, named by
\* what was running: an operator of applyAllAdjustments (an allocation that
\* fails), putImageData or drawImage of updatePreview.
ThrowPoints == {"applyAllAdjustments", "putImageData", "drawImage"}

canvasApplyFilterThrows_noFinally(c, params, at) ==
  IF applyFilterReturns(c) THEN c
  ELSE LET updated == updateAdjustments([c EXCEPT !.isProcessing = TRUE], params)
           composed == [updated EXCEPT !.currentImageData = applyAllAdjustments(updated)]
       IN  CASE at = "applyAllAdjustments" -> updated
             [] at = "putImageData" -> composed
             [] at = "drawImage" -> updatePreview(composed, "processed")

\* applyFilter(params) when the statement at throws: the assignments made
\* before it stay, the finally block runs and the exception leaves the call.
canvasApplyFilterThrows(c, params, at) ==
  IF applyFilterReturns(c) THEN c
  ELSE LET updated == updateAdjustments([c EXCEPT !.isProcessing = TRUE], params)
           composed == [updated EXCEPT !.currentImageData = applyAllAdjustments(updated)]
           thrown == CASE at = "applyAllAdjustments" -> updated
                       [] at = "putImageData" -> composed
                       [] at = "drawImage" -> updatePreview(composed, "processed")
       IN  [thrown EXCEPT !.isProcessing = FALSE]

bake_original(c) ==
  IF c.currentImageData # Null
    THEN [c EXCEPT !.historyManager =
            addState(c.historyManager, canvasCloneImageData(c.originalImageData))]
    ELSE c

bake(c) ==
  IF c.currentImageData # Null
    THEN [c EXCEPT !.historyManager =
            addState(c.historyManager, canvasCloneImageData(c.currentImageData))]
    ELSE c

reset_keepHistory(c) ==
  IF c.originalImageData # Null
    THEN LET current == canvasCloneImageData(c.originalImageData)
             shown == updatePreview([c EXCEPT !.currentAdjustments = NeutralAdjustments,
                                              !.currentImageData = current,
                                              !.cropRect = Null],
                                    "processed")
         IN  [shown EXCEPT !.historyManager =
                addState(c.historyManager, canvasCloneImageData(current))]
    ELSE c

reset(c) ==
  IF c.originalImageData # Null
    THEN LET current == canvasCloneImageData(c.originalImageData)
             shown == updatePreview([c EXCEPT !.currentAdjustments = NeutralAdjustments,
                                              !.currentImageData = current,
                                              !.cropRect = Null],
                                    "processed")
         IN  [shown EXCEPT !.historyManager =
                addState(clear(c.historyManager), canvasCloneImageData(current))]
    ELSE c

canvasUndo_resynchronized(c) ==
  LET previousState == undo(c.historyManager)
      moved == [c EXCEPT !.historyManager = previousState.h]
  IN  IF previousState.entry # Null
        THEN [c |-> updatePreview([moved EXCEPT !.currentImageData =
                                     canvasCloneImageData(previousState.entry),
                                   !.currentAdjustments = NeutralAdjustments],
                                  "processed"),
              ret |-> TRUE]
        ELSE [c |-> moved, ret |-> FALSE]

\* undo() and redo(): the manager after the call and the boolean returned.
canvasUndo(c) ==
  LET previousState == undo(c.historyManager)
      moved == [c EXCEPT !.historyManager = previousState.h]
  IN  IF previousState.entry # Null
        THEN [c |-> updatePreview([moved EXCEPT !.currentImageData =
                                     canvasCloneImageData(previousState.entry)],
                                  "processed"),
              ret |-> TRUE]
        ELSE [c |-> moved, ret |-> FALSE]

canvasRedo(c) ==
  LET nextState == redo(c.historyManager)
      moved == [c EXCEPT !.historyManager = nextState.h]
  IN  IF nextState.entry # Null
        THEN [c |-> updatePreview([moved EXCEPT !.currentImageData =
                                     canvasCloneImageData(nextState.entry)],
                                  "processed"),
              ret |-> TRUE]
        ELSE [c |-> moved, ret |-> FALSE]

rotate(c, angle) ==
  IF c.currentImageData = Null THEN c
  ELSE LET rotatedData == rotateImage(c.currentImageData, angle)
       IN  updatePreview([c EXCEPT !.currentImageData = rotatedData,
                                   !.offscreenCanvas =
                                      Resize(c.offscreenCanvas, rotatedData.width,
                                             rotatedData.height)],
                         "processed")

flip(c, horizontal) ==
  IF c.currentImageData = Null THEN c
  ELSE updatePreview([c EXCEPT !.currentImageData = flipImage(c.currentImageData, horizontal)],
                     "processed")

setCropRect(c, rect) == updatePreview([c EXCEPT !.cropRect = rect], "processed")

confirmCrop_clearsRect(c) ==
  IF c.cropRect # Null /\ c.currentImageData # Null
    THEN LET croppedData == applyFilter(c.currentImageData,
                                        [type |-> "crop", cropRect |-> c.cropRect])
         IN  updatePreview([c EXCEPT !.currentImageData = croppedData,
                                     !.offscreenCanvas =
                                        Resize(c.offscreenCanvas, croppedData.width,
                                               croppedData.height),
                                     !.cropRect = Null],
                           "processed")
    ELSE [c EXCEPT !.cropRect = Null]

confirmCrop(c) ==
  IF c.cropRect # Null /\ c.currentImageData # Null
    THEN LET croppedData == applyFilter(c.currentImageData,
                                        [type |-> "crop", cropRect |-> c.cropRect])
         IN  updatePreview([c EXCEPT !.currentImageData = croppedData,
                                     !.offscreenCanvas =
                                        Resize(c.offscreenCanvas, croppedData.width,
                                               croppedData.height),
                                     !.cropRect = Null],
                           "processed")
    ELSE c

cancelCrop(c) == updatePreview([c EXCEPT !.cropRect = Null], "processed")

(***************************************************************************)
(* Spec: a user interface drives one CanvasManager.  JavaScript runs every *)
(* method to completion, so a call is one step; the only call that can     *)
(* fall inside another is an applyFilter arriving while an applyFilter is  *)
(* in flight, which is part of the step of the outer call.                 *)
(***************************************************************************)
\* Calls made in one behaviour.
MaxSteps == 5

\* What createImageBitmap can resolve with: a 2x1 and a 1x1 opaque bitmap.
Bitmaps ==
  {ImageData(<<255, 0, 0, 255,   0, 0, 255, 255>>, 2, 1),
   ImageData(<<200, 100, 50, 255>>, 1, 1)}

\* FilterParams as the sidebar sends them: a slider moved off and back to
\* its neutral position, a toggle, a radius, a strength with a mode, and a
\* type updateAdjustments has no case for.
Requests ==
  {[type |-> "brightness", value |-> 50],
   [type |-> "brightness", value |-> 0],
   [type |-> "invert"],
   [type |-> "blur", value |-> 1, radius |-> 1],
   [type |-> "histogramEqualization", strength |-> 100, mode |-> "rgb"],
   [type |-> "sobelEdge"]}

\* The calls that arrive while an applyFilter is in flight, and the calls
\* they fall into.
Reentrant == {[type |-> "invert"], [type |-> "brightness", value |-> 50]}

Angles == {90}
CropRects == {[x |-> 1, y |-> 0, width |-> 1, height |-> 1]}

\* A call ends: the manager after it, what it returned, and what it was.
Call(c, returned, op, arg) ==
  /\ steps' = steps + 1
  /\ cm' = c
  /\ ret' = returned
  /\ last' = [op |-> op, arg |-> arg]
  /\ UNCHANGED <<hvars, evars>>

LoadImage(bitmap) ==
  /\ steps < MaxSteps
  /\ Call(loadImage(cm, bitmap), Void, "loadImage", bitmap)

\* createImageBitmap rejects: loadImage throws before touching the manager.
LoadImageFail ==
  /\ steps < MaxSteps
  /\ Call(loadImageRejected(cm), [error |-> TRUE], "loadImage", Null)

ApplyFilter(params) ==
  /\ steps < MaxSteps
  /\ Call(canvasApplyFilter(cm, params, Null), Void, "applyFilter",
          [params |-> params, during |-> Null])

\* applyFilter(params) is entered and applyFilter(during) arrives before it
\* ends.
ApplyFilterReentered(params, during) ==
  /\ steps < MaxSteps
  /\ ~applyFilterReturns(cm)
  /\ Call(canvasApplyFilter(cm, params, during), Void, "applyFilter",
          [params |-> params, during |-> during])

Bake ==
  /\ steps < MaxSteps
  /\ Call(bake(cm), Void, "bake", Void)

Reset ==
  /\ steps < MaxSteps
  /\ Call(reset(cm), Void, "reset", Void)

Undo ==
  /\ steps < MaxSteps
  /\ Call(canvasUndo(cm).c, Bool(canvasUndo(cm).ret), "undo",
          Bool(canUndo(cm.historyManager)))

Redo ==
  /\ steps < MaxSteps
  /\ Call(canvasRedo(cm).c, Bool(canvasRedo(cm).ret), "redo",
          Bool(canRedo(cm.historyManager)))

Rotate(angle) ==
  /\ steps < MaxSteps
  /\ Call(rotate(cm, angle), Void, "rotate", angle)

Flip(horizontal) ==
  /\ steps < MaxSteps
  /\ Call(flip(cm, horizontal), Void, "flip", Bool(horizontal))

SetCropRect(rect) ==
  /\ steps < MaxSteps
  /\ Call(setCropRect(cm, rect), Void, "setCropRect", rect)

ConfirmCrop ==
  /\ steps < MaxSteps
  /\ Call(confirmCrop(cm), Void, "confirmCrop", Void)

CancelCrop ==
  /\ steps < MaxSteps
  /\ Call(cancelCrop(cm), Void, "cancelCrop", Void)

Next ==
  \/ \E bitmap \in Bitmaps : LoadImage(bitmap)
  \/ LoadImageFail
  \/ \E params \in Requests : ApplyFilter(params)
  \/ \E params \in Reentrant, during \in Reentrant : ApplyFilterReentered(params, during)
  \/ Bake
  \/ Reset
  \/ Undo
  \/ Redo
  \/ \E angle \in Angles : Rotate(angle)
  \/ \E horizontal \in BOOLEAN : Flip(horizontal)
  \/ \E rect \in CropRects : SetCropRect(rect)
  \/ ConfirmCrop
  \/ CancelCrop

(***************************************************************************)
(* SpecEditor: the calls the Editor component makes on its CanvasManager.  *)
(* Its handlers call loadImage, applyFilter, undo, redo, reset, rotate,    *)
(* flip, setCropRect, confirmCrop and cancelCrop; no handler calls bake.   *)
(***************************************************************************)
NextEditor ==
  \/ \E bitmap \in Bitmaps : LoadImage(bitmap)
  \/ LoadImageFail
  \/ \E params \in Requests : ApplyFilter(params)
  \/ Reset
  \/ Undo
  \/ Redo
  \/ \E angle \in Angles : Rotate(angle)
  \/ \E horizontal \in BOOLEAN : Flip(horizontal)
  \/ \E rect \in CropRects : SetCropRect(rect)
  \/ ConfirmCrop
  \/ CancelCrop

(***************************************************************************)
(* SpecBusy: applyFilter calls on a CanvasManager, some of which end by an *)
(* exception thrown inside the try block.                                  *)
(***************************************************************************)
ApplyFilterThrows(params, at) ==
  /\ steps < MaxSteps
  /\ ~applyFilterReturns(cm)
  /\ Call(canvasApplyFilterThrows(cm, params, at), [error |-> TRUE], "applyFilter",
          [params |-> params, during |-> Null, throws |-> at])

NextBusy ==
  \/ \E bitmap \in Bitmaps : LoadImage(bitmap)
  \/ \E params \in Requests : ApplyFilter(params)
  \/ \E params \in Reentrant, during \in Reentrant : ApplyFilterReentered(params, during)
  \/ \E params \in Requests, at \in ThrowPoints : ApplyFilterThrows(params, at)

(***************************************************************************)
(* SpecDebounce: the Editor component between the sidebar and the          *)
(* CanvasManager.  handleFilterChange hands every parameter change to one  *)
(* debounced function: a call of it cancels the pending timer and sets a   *)
(* new one holding its own arguments, and the timer, 200 ms later, calls   *)
(* applyFilter with the arguments it holds.  Time is not modelled: a       *)
(* pending timer fires at any later step, before or after other handlers.  *)
(* The controls are disabled until an image is loaded (hasImage).          *)
(***************************************************************************)
\* Requests one burst can hold.
MaxBurst == 3

\* Parameter changes of the sidebar: two positions of one slider, another
\* slider, and a strength with its mode.
DebounceRequests ==
  {[type |-> "brightness", value |-> 50],
   [type |-> "brightness", value |-> 0],
   [type |-> "contrast", value |-> 50],
   [type |-> "histogramEqualization", strength |-> 100, mode |-> "rgb"]}

\* A handler of the Editor ends: the manager after it and what ran.
Handled(c, op, arg) ==
  /\ cm' = c
  /\ ret' = Void
  /\ last' = [op |-> op, arg |-> arg]
  /\ UNCHANGED <<hvars, steps>>

\* handleFileSelect / handleDrop: loadImage resolves and hasImage is set.
HandleFileSelect(bitmap) ==
  /\ Handled(loadImage(cm, bitmap), "loadImage", bitmap)
  /\ burst' = <<>>
  /\ UNCHANGED timeout

\* handleFilterChange -> debouncedApplyFilter(type, value, extraParams):
\* clearTimeout(timeout); timeout = setTimeout(() => func(...args), wait).
HandleFilterChange(params) ==
  /\ cm.currentImageData # Null
  /\ timeout = Null \/ Len(burst) < MaxBurst
  /\ Handled(cm, "handleFilterChange", params)
  /\ timeout' = params
  /\ burst' = IF timeout = Null THEN <<params>> ELSE Append(burst, params)

\* The timer fires: applyFilter({ type, value, ...extraParams }), then
\* updatePreview(currentCompareMode).
TimeoutFires ==
  /\ timeout # Null
  /\ Handled(updatePreview(canvasApplyFilter(cm, timeout, Null), "processed"),
             "timeout", timeout)
  /\ timeout' = Null
  /\ UNCHANGED burst

\* handleReset: reset(); the timer is not touched.
HandleReset ==
  /\ cm.currentImageData # Null
  /\ Handled(reset(cm), "reset", Void)
  /\ burst' = <<>>
  /\ UNCHANGED timeout

NextDebounce ==
  \/ \E bitmap \in Bitmaps : HandleFileSelect(bitmap)
  \/ \E params \in DebounceRequests : HandleFilterChange(params)
  \/ TimeoutFires
  \/ HandleReset

(***************************************************************************)
(* SpecEqualization: applyFilter calls for histogram equalization that     *)
(* carry both sub-fields, the strength only, or the mode only.             *)
(***************************************************************************)
EqualizationRequests ==
  {[type |-> "histogramEqualization", strength |-> 100, mode |-> "rgb"],
   [type |-> "histogramEqualization", strength |-> 50],
   [type |-> "histogramEqualization", mode |-> "rgb"],
   [type |-> "histogramEqualization", mode |-> "luminance"],
   [type |-> "histogramEqualization"],
   [type |-> "brightness", value |-> 50]}

NextEqualization ==
  \/ \E bitmap \in Bitmaps : LoadImage(bitmap)
  \/ \E params \in EqualizationRequests : ApplyFilter(params)

(***************************************************************************)
(* SpecCompose: every control of the sidebar is moved, in any order and    *)
(* any number of times, over one loaded image: each slider between its     *)
(* neutral position and one other position, each toggle on and off.  The   *)
(* reachable adjustments are all the combinations of these positions.      *)
(***************************************************************************)
ComposeBitmap == ImageData(<<255, 0, 0, 255,   0, 0, 255, 255>>, 2, 1)

ComposeRequests ==
  {[type |-> "brightness", value |-> v] : v \in {0, 50}}
  \cup {[type |-> "contrast", value |-> v] : v \in {0, 50}}
  \cup {[type |-> "saturation", value |-> v] : v \in {0, -100}}
  \cup {[type |-> "adjustRGB", r |-> v, g |-> 0, b |-> 0] : v \in {0, 10}}
  \cup {[type |-> "blur", value |-> v, radius |-> v] : v \in {0, 1}}
  \cup {[type |-> "sharpen", value |-> v] : v \in {0, 50}}
  \cup {[type |-> "histogramEqualization", strength |-> v, mode |-> "luminance"] : v \in {0, 100}}
  \cup {[type |-> "medianFilter", value |-> v] : v \in {0, 1}}
  \cup {[type |-> "gaussianBlur", sigma |-> v] : v \in {0, 1}}
  \cup {[type |-> t] : t \in {"grayscale", "invert", "laplacianSharpen"}}

ComposeLoadImage ==
  /\ cm.originalImageData = Null
  /\ cm' = loadImage(cm, ComposeBitmap)
  /\ ret' = Void
  /\ last' = [op |-> "loadImage", arg |-> ComposeBitmap]
  /\ UNCHANGED <<hvars, steps, evars>>

ComposeApplyFilter(params) ==
  /\ cm' = canvasApplyFilter(cm, params, Null)
  /\ ret' = Void
  /\ last' = [op |-> "applyFilter", arg |-> Void]
  /\ UNCHANGED <<hvars, steps, evars>>

NextCompose ==
  \/ ComposeLoadImage
  \/ \E params \in ComposeRequests : ComposeApplyFilter(params)

(***************************************************************************)
(* SpecCrop: a crop session on a CanvasManager: an image is loaded, the    *)
(* crop overlay sets rectangles, and the crop is confirmed or cancelled.   *)
(***************************************************************************)
\* Rectangles of no area, and one of one pixel.
CropSessionRects ==
  {[x |-> 0, y |-> 0, width |-> 0, height |-> 0],
   [x |-> 1, y |-> 0, width |-> 0, height |-> 1],
   [x |-> 1, y |-> 0, width |-> 1, height |-> 1]}

NextCrop ==
  \/ \E bitmap \in Bitmaps : LoadImage(bitmap)
  \/ \E rect \in CropSessionRects : SetCropRect(rect)
  \/ ConfirmCrop
  \/ CancelCrop

(***************************************************************************)
(* SpecFilters: a caller of filters.ts.  It holds one buffer (held), calls *)
(* applyFilter, rotateImage or flipImage on it and keeps the buffer the    *)
(* call returned (ret); as CanvasManager does, it passes the result of a   *)
(* rotation, of a flip and of grayscale on to the next call.  Buffers are  *)
(* objects of the heap, so that a call returning its argument is visible.  *)
(***************************************************************************)
Gray4x4 ==
  ImageData([j \in 1..64 |-> IF Channel(j) = 3 THEN 255 ELSE 128], 4, 4)

White4x4 == ImageData([j \in 1..64 |-> 255], 4, 4)

\* Black where x + y is even (light = 0), or where it is odd (light = 1).
Checkerboard(light) ==
  ImageData([j \in 1..64 |->
               IF Channel(j) = 3 THEN 255
               ELSE IF ((PixelOf(j) % 4) + (PixelOf(j) \div 4)) % 2 = light THEN 255 ELSE 0],
            4, 4)

\* A 3x3 buffer with one interior pixel and a pixel (0,0,4) of luma 0.
Image3x3 ==
  ImageData(<<10, 200, 30, 255,    60, 20, 90, 255,     200, 100, 0, 255,
              0, 0, 4, 255,        120, 130, 140, 255,  255, 255, 255, 255,
              30, 60, 90, 255,     90, 10, 250, 255,    5, 250, 100, 255>>, 3, 3)

Image3x2 ==
  ImageData(<<1, 2, 3, 255,     4, 5, 6, 255,     7, 8, 9, 255,
              10, 11, 12, 255,  13, 14, 15, 255,  16, 17, 18, 255>>, 3, 2)

FilterImages ==
  {Gray4x4, Checkerboard(0), Image3x3, Image3x2,
   ImageData(<<255, 0, 0, 255,   0, 0, 255, 255>>, 2, 1),
   ImageData(<<200, 100, 50, 255>>, 1, 1)}

\* The parameters applyAllAdjustments would not dispatch: the neutral value
\* of each operator.
NeutralRequests ==
  {[type |-> "brightness", value |-> 0],
   [type |-> "contrast", value |-> 0],
   [type |-> "saturation", value |-> 0],
   [type |-> "adjustRGB", r |-> 0, g |-> 0, b |-> 0],
   [type |-> "blur", radius |-> 0],
   [type |-> "sharpen", value |-> 0],
   [type |-> "histogramEqualization", strength |-> 0, mode |-> "luminance"],
   [type |-> "histogramEqualization", strength |-> 0, mode |-> "rgb"],
   [type |-> "medianFilter", radius |-> 0],
   [type |-> "gaussianBlur", sigma |-> 0]}

\* Rectangles inside, larger than, outside and at the edge of the images,
\* and of no area.
FilterCropRects ==
  {[x |-> 1, y |-> 0, width |-> 1, height |-> 1],
   [x |-> 0, y |-> 0, width |-> 9, height |-> 9],
   [x |-> 0, y |-> 0, width |-> 0, height |-> 0],
   [x |-> 4, y |-> 0, width |-> 1, height |-> 1],
   [x |-> 0, y |-> 4, width |-> 1, height |-> 1],
   [x |-> -1, y |-> -1, width |-> 2, height |-> -2]}

StrengthSamples == {0, 25, 50, 75, 100}

FilterRequests ==
  NeutralRequests
    \cup {[type |-> "brightness", value |-> v] : v \in {50, -50}}
    \cup {[type |-> "contrast", value |-> 50], [type |-> "saturation", value |-> -100],
          [type |-> "adjustRGB", r |-> 10, g |-> 0, b |-> -10],
          [type |-> "blur", radius |-> 1],
          [type |-> "medianFilter", radius |-> 1],
          [type |-> "gaussianBlur", sigma |-> 1],
          [type |-> "grayscale"], [type |-> "invert"], [type |-> "laplacianSharpen"],
          [type |-> "sobelEdge"], [type |-> "prewittEdge"], [type |-> "robertsEdge"],
          [type |-> "crop"], [type |-> "vignette", value |-> 50]}
    \cup {[type |-> "sharpen", value |-> v] : v \in {50, 100}}
    \cup {[type |-> "histogramEqualization", strength |-> v, mode |-> m] :
            v \in StrengthSamples \ {0}, m \in {"luminance", "rgb"}}
    \cup {[type |-> "crop", cropRect |-> rect] : rect \in FilterCropRects}

\* The calls whose result the caller passes on.
PassedOn == {"rotateImage", "flipImage", "grayscale"}

\* A call returns: result is the ImageData it allocated, or Null when it
\* returned its argument.
FilterReturn(result, op, arg) ==
  /\ IF result = Null
       THEN /\ ret' = held
            /\ heap' = [r \in {held} |-> heap[held]]
       ELSE /\ ret' = Ref(1)
            /\ heap' = [r \in {held, Ref(1)} |-> IF r = held THEN heap[held] ELSE result]
  /\ last' = [op |-> op, arg |-> arg]
  /\ UNCHANGED <<hm, held, cm, steps, evars>>

FilterApplyFilter(params) ==
  /\ held \in DOMAIN heap
  /\ FilterReturn(IF applyFilterReturnsArgument(params) THEN Null
                  ELSE applyFilter(heap[held], params),
                  "applyFilter", params)

FilterRotateImage(angle) ==
  /\ held \in DOMAIN heap
  /\ FilterReturn(rotateImage(heap[held], angle), "rotateImage", angle)

FilterFlipImage(horizontal) ==
  /\ held \in DOMAIN heap
  /\ FilterReturn(flipImage(heap[held], horizontal), "flipImage", Bool(horizontal))

\* The caller drops its buffer and holds the returned one instead.
FilterPass ==
  /\ ret \in DOMAIN heap
  /\ last.op \in PassedOn \/ (last.op = "applyFilter" /\ last.arg.type \in PassedOn)
  /\ heap' = [r \in {held} |-> heap[ret]]
  /\ ret' = Void
  /\ last' = [op |-> "pass", arg |-> Void]
  /\ UNCHANGED <<hm, held, cm, steps, evars>>

NextFilters ==
  \/ \E params \in FilterRequests : FilterApplyFilter(params)
  \/ \E angle \in {90, 180, 270} : FilterRotateImage(angle)
  \/ \E horizontal \in BOOLEAN : FilterFlipImage(horizontal)
  \/ FilterPass

\* debounce(...) has set no timer yet.
EditorInit ==
  /\ timeout = Null
  /\ burst = <<>>

FiltersInit ==
  /\ hm = NewHistoryManager
  /\ cm = NewCanvasManager
  /\ steps = 0
  /\ held = Ref(0)
  /\ heap \in {[r \in {Ref(0)} |-> img] : img \in FilterImages}
  /\ ret = Void
  /\ last = [op |-> "new ImageData", arg |-> Void]
  /\ EditorInit

CanvasInit == cm = NewCanvasManager

Init ==
  /\ HistoryInit
  /\ CanvasInit
  /\ EditorInit
  /\ ret = Void
  /\ last = [op |-> "new HistoryManager", arg |-> Void]
  /\ steps = 0

SpecHistory == Init /\ [][NextHistory]_vars

Spec == Init /\ [][Next]_vars

SpecCompose == Init /\ [][NextCompose]_vars

SpecEditor == Init /\ [][NextEditor]_vars

SpecCrop == Init /\ [][NextCrop]_vars

SpecBusy == Init /\ [][NextBusy]_vars

SpecEqualization == Init /\ [][NextEqualization]_vars

SpecDebounce == Init /\ [][NextDebounce]_vars

SpecFilters == FiltersInit /\ [][NextFilters]_vars

(***************************************************************************)
(* Claims about the HistoryManager (SpecHistory).                          *)
(***************************************************************************)
\* The contents of the stored entries, in order.
Contents(h, hp) == [i \in 1..Len(h.history) |-> hp[h.history[i].imageData]]

\* C1: addState called while the cursor is not on the last entry keeps the
\* entries up to the cursor, drops every entry after it, appends a copy of the
\* argument and puts the cursor on it: nothing is left after the new entry
\* for a later redo to reach.
C1_AddStateDropsRedoBranch ==
  [][(last'.op = "addState" /\ canRedo(hm)) =>
       /\ Len(hm'.history) = hm.currentIndex + 2
       /\ SubSeq(Contents(hm', heap'), 1, hm.currentIndex + 1)
            = SubSeq(Contents(hm, heap), 1, hm.currentIndex + 1)
       /\ SubSeq(hm'.history, 1, hm.currentIndex + 1)
            = SubSeq(hm.history, 1, hm.currentIndex + 1)
       /\ Contents(hm', heap')[hm.currentIndex + 2] = heap[held]
       /\ hm'.currentIndex = Len(hm'.history) - 1
       /\ ~canRedo(hm')]_vars

\* C1 witness: addState has run on [A,B,C,D] with the cursor on C.
C1_Witness ==
  /\ last.op = "addState"
  /\ last.arg.redo
  /\ Len(hm.history) = 4
  /\ hm.currentIndex = 3

\* C2: the cursor is -1 exactly when the history is empty, is within
\* [0, length-1] otherwise, and the number of entries never exceeds the capacity.
C2_CursorAndCapacity ==
  /\ (hm.currentIndex = -1) <=> (Len(hm.history) = 0)
  /\ Len(hm.history) > 0 => hm.currentIndex \in 0..(Len(hm.history) - 1)
  /\ Len(hm.history) <= hm.maxHistorySize

\* C2 witness: setMaxHistorySize has removed entries from a history whose
\* cursor was not on the last entry.
C2_Witness ==
  /\ last.op = "setMaxHistorySize"
  /\ last.arg = Bool(TRUE)
  /\ Len(hm.history) >= 2
  /\ hm.currentIndex = 0

\* C3: addState on a full history with the cursor on the last entry evicts
\* exactly the oldest entry, keeps the others in order, stores the new entry
\* last and leaves the cursor on it.
C3_OverflowEvictsOldest ==
  [][(/\ last'.op = "addState"
      /\ Len(hm.history) = hm.maxHistorySize
      /\ hm.currentIndex = Len(hm.history) - 1) =>
       /\ Len(hm'.history) = Len(hm.history)
       /\ \A i \in 1..(Len(hm.history) - 1) :
            Contents(hm', heap')[i] = Contents(hm, heap)[i + 1]
       /\ Contents(hm', heap')[Len(hm'.history)] = heap[held]
       /\ hm'.currentIndex = Len(hm'.history) - 1]_vars

\* C3 witness: addState has run on a full history of at least two entries
\* with the cursor on the last one.
C3_Witness ==
  /\ last.op = "addState"
  /\ last.arg.full
  /\ ~last.arg.redo
  /\ Len(hm.history) >= 2

\* C5: a write into a buffer the caller holds (the one it passed to addState,
\* or the one undo, redo or getCurrentState returned) changes the content of
\* no stored entry, and no stored entry is a buffer the caller holds.
C5_NoAliasing ==
  [][/\ \A i \in 1..Len(hm'.history) : hm'.history[i].imageData \notin {held', ret'}
     /\ last'.op = "write" => Contents(hm', heap') = Contents(hm, heap)]_vars

\* C5 witness: the caller has written into a buffer while the history stores
\* entries, and holds both a buffer it passed to addState and a returned one.
C5_Witness ==
  /\ last.op = "write"
  /\ Len(hm.history) >= 2
  /\ held \in DOMAIN heap
  /\ ret \in DOMAIN heap
  /\ heap[ret] # heap[getCurrentState(hm)]

(***************************************************************************)
(* Claims about the CanvasManager (Spec, SpecCompose).                     *)
(***************************************************************************)
\* C4: undo() on an empty history or with the cursor at 0, and redo() with
\* the cursor on the last entry, return the failure value (HistoryManager:
\* null, CanvasManager: false) and leave the entries, the cursor, the current
\* buffer and the adjustments as they were; undo()/redo() succeed exactly
\* when canUndo()/canRedo() held just before, and then the current buffer is
\* the entry the cursor moved to.
C4_UndoRedoAtBoundary ==
  [][/\ last'.op = "undo" =>
          LET h == cm.historyManager
          IN  /\ ret' = Bool(canUndo(h))
              /\ (undo(h).entry = Null) <=> ~canUndo(h)
              /\ ~canUndo(h) => cm' = cm
              /\ canUndo(h) =>
                   /\ cm'.historyManager = [h EXCEPT !.currentIndex = h.currentIndex - 1]
                   /\ cm'.currentImageData = h.history[h.currentIndex].imageData
                   /\ cm'.currentAdjustments = cm.currentAdjustments
     /\ last'.op = "redo" =>
          LET h == cm.historyManager
          IN  /\ ret' = Bool(canRedo(h))
              /\ (redo(h).entry = Null) <=> ~canRedo(h)
              /\ ~canRedo(h) => cm' = cm
              /\ canRedo(h) =>
                   /\ cm'.historyManager = [h EXCEPT !.currentIndex = h.currentIndex + 1]
                   /\ cm'.currentImageData = h.history[h.currentIndex + 2].imageData
                   /\ cm'.currentAdjustments = cm.currentAdjustments]_vars

\* An undo refused with the cursor at 0 of a history of two entries: the
\* cursor got there by an undo that succeeded.
C4_Witness ==
  /\ last = [op |-> "undo", arg |-> Bool(FALSE)]
  /\ ret = Bool(FALSE)
  /\ Len(cm.historyManager.history) = 2
  /\ cm.historyManager.currentIndex = 0

\* C6: an applyFilter call, re-entered or not, leaves originalImageData as
\* it was, content and dimensions; a successful loadImage sets it to the
\* pixels of the bitmap.
C6_OriginalUnchangedByApplyFilter ==
  [][/\ last'.op = "applyFilter" => cm'.originalImageData = cm.originalImageData
     /\ (last'.op = "loadImage" /\ last'.arg # Null) => cm'.originalImageData = last'.arg]_vars

\* An applyFilter that changed the current buffer of a loaded image.
C6_Witness ==
  /\ last.op = "applyFilter"
  /\ cm.originalImageData \in Bitmaps
  /\ cm.currentAdjustments.brightness = 50
  /\ cm.currentAdjustments.invert
  /\ cm.currentImageData # cm.originalImageData

\* The manager that has just loaded original and holds the adjustments a.
Loaded(original, a) ==
  [NewCanvasManager EXCEPT !.originalImageData = original,
                           !.currentImageData = canvasCloneImageData(original),
                           !.currentAdjustments = a]

\* C7: after an applyFilter call on a loaded image, the current buffer is
\* what composing the adjustments over the original image gives in a
\* manager that did nothing else: it depends on the original image and the
\* adjustments only, not on the calls (parameter changes, undo, redo, bake,
\* geometry) that led there.
C7_ComposedFromOriginalAndAdjustments ==
  (last.op = "applyFilter" /\ cm.originalImageData # Null) =>
     cm.currentImageData =
       applyAllAdjustments(Loaded(cm.originalImageData, cm.currentAdjustments))

\* invert, bake, undo, brightness: the last applyFilter ran with the cursor
\* moved back by an undo and two parameters set.
C7_Witness ==
  /\ last.op = "applyFilter"
  /\ last.arg.params.type = "brightness"
  /\ Len(cm.historyManager.history) = 2
  /\ cm.historyManager.currentIndex = 0
  /\ cm.currentAdjustments.brightness = 50
  /\ cm.currentAdjustments.invert

\* The order of the operators.
FixedOrder ==
  <<"brightness", "contrast", "saturation", "adjustRGB", "grayscale", "invert", "blur",
    "sharpen", "histogramEqualization", "medianFilter", "gaussianBlur", "laplacianSharpen">>

\* The parameter of the operator differs from its neutral value.
NonNeutral(a, type) ==
  CASE type = "brightness" -> a.brightness # 0
    [] type = "contrast" -> a.contrast # 0
    [] type = "saturation" -> a.saturation # 0
    [] type = "adjustRGB" -> <<a.rgbR, a.rgbG, a.rgbB>> # <<0, 0, 0>>
    [] type = "grayscale" -> a.grayscale # FALSE
    [] type = "invert" -> a.invert # FALSE
    [] type = "blur" -> a.blur # 0
    [] type = "sharpen" -> a.sharpenStrength # 0
    [] type = "histogramEqualization" -> a.histogramEqualizationStrength # 0
    [] type = "medianFilter" -> a.medianFilterRadius # 0
    [] type = "gaussianBlur" -> a.gaussianBlurSigma # 0
    [] type = "laplacianSharpen" -> a.laplacianSharpen # FALSE

\* C8: for adjustments within the ranges of the controls, the operators
\* applyAllAdjustments applies are those of the fixed order whose parameter
\* is not neutral, in that order, whatever the order the parameters were set
\* in; after an applyFilter the current buffer is the original image with
\* these applied one after the other.
C8_FixedOrderOfOperators ==
  LET a == cm.currentAdjustments
      applied == [i \in 1..Len(Dispatches(a)) |-> Dispatches(a)[i].type]
  IN  /\ applied = SelectSeq(FixedOrder, LAMBDA type : NonNeutral(a, type))
      /\ (last.op = "applyFilter" /\ cm.originalImageData # Null) =>
            cm.currentImageData =
              ApplyEach(canvasCloneImageData(cm.originalImageData), Dispatches(a))

\* Every operator is applied.
C8_Witness ==
  /\ last.op = "applyFilter"
  /\ cm.originalImageData # Null
  /\ [i \in 1..Len(Dispatches(cm.currentAdjustments)) |->
        Dispatches(cm.currentAdjustments)[i].type] = FixedOrder

\* C9: an applyFilter call arriving while another is in flight returns at
\* once: where it arrives (isProcessing set, the parameter of the outer call
\* stored) it leaves the manager as it finds it, so no second composition
\* starts, and the outer call ends exactly as it does when nothing arrives:
\* the adjustments, the current buffer and everything else are those of the
\* outer call alone, and nothing of the dropped call is left to run.
C9_ReentrantApplyFilterDropped ==
  [][(last'.op = "applyFilter" /\ last'.arg.during # Null) =>
       LET arrival == updateAdjustments([cm EXCEPT !.isProcessing = TRUE], last'.arg.params)
       IN  /\ canvasApplyFilter(arrival, last'.arg.during, Null) = arrival
           /\ cm' = canvasApplyFilter(cm, last'.arg.params, Null)
           /\ ~cm'.isProcessing]_vars

\* brightness is set while an invert arrives: only brightness took effect.
C9_Witness ==
  /\ last.op = "applyFilter"
  /\ last.arg.params = [type |-> "brightness", value |-> 50]
  /\ last.arg.during = [type |-> "invert"]
  /\ cm.currentAdjustments.brightness = 50
  /\ ~cm.currentAdjustments.invert
  /\ cm.currentImageData # cm.originalImageData

\* C10: after a successful loadImage every adjustment is neutral and the
\* current buffer is the composition of the adjustments over the original
\* image.
C10_LoadImageResetsAdjustments ==
  (last.op = "loadImage" /\ last.arg # Null) =>
     /\ cm.currentAdjustments = NeutralAdjustments
     /\ cm.currentImageData =
          applyAllAdjustments(Loaded(cm.originalImageData, cm.currentAdjustments))

\* The history holds exactly the buffer img, with the cursor on it.
OnlyEntry(h, img) ==
  /\ Len(h.history) = 1
  /\ h.history[1].imageData = img
  /\ h.currentIndex = 0
  /\ ~canUndo(h)
  /\ ~canRedo(h)

\* C11: after a loadImage whose bitmap decoded, whatever the history held
\* before, the history holds one entry, equal to the loaded image, with the
\* cursor on it, canUndo() and canRedo() are false, and originalImageData and
\* currentImageData both equal the loaded image.
C11_LoadImageSeedsHistory ==
  [][(last'.op = "loadImage" /\ last'.arg # Null) =>
       /\ OnlyEntry(cm'.historyManager, last'.arg)
       /\ getCurrentState(cm'.historyManager) = last'.arg
       /\ cm'.originalImageData = last'.arg
       /\ cm'.currentImageData = last'.arg]_vars

\* A second image is loaded over a document that had an image, and so an
\* entry in its history, and whose invert toggle had been set.
C11_Witness ==
  /\ last.op = "loadImage"
  /\ last.arg = ImageData(<<200, 100, 50, 255>>, 1, 1)
  /\ cm.currentAdjustments.invert
  /\ OnlyEntry(cm.historyManager, last.arg)

\* C12: reset() on a document with an image loaded leaves every adjustment
\* neutral, the current buffer equal to the original image, which it does not
\* change, and the history with one entry equal to that buffer and the
\* cursor on it (canUndo() and canRedo() false).
C12_ResetRestoresNeutral ==
  [][(last'.op = "reset" /\ cm.originalImageData # Null) =>
       /\ cm'.currentAdjustments = NeutralAdjustments
       /\ cm'.originalImageData = cm.originalImageData
       /\ cm'.currentImageData = cm'.originalImageData
       /\ OnlyEntry(cm'.historyManager, cm'.currentImageData)]_vars

\* A reset after a rotation: the offscreen canvas still has the rotated
\* size while the current buffer is the original image again.
C12_Witness ==
  /\ last.op = "reset"
  /\ cm.originalImageData # Null
  /\ cm.originalImageData.width = 2
  /\ cm.offscreenCanvas.width = 1
  /\ cm.currentImageData = cm.originalImageData

\* C13: rotate, flip and a confirmed crop on a loaded document replace
\* originalImageData with the transformed buffer, so that what a later
\* applyFilter or reset composes from carries the geometry change.
C13_GeometryReplacesOriginal ==
  [][(/\ last'.op \in {"rotate", "flip", "confirmCrop"}
      /\ cm.currentImageData # Null
      /\ cm'.currentImageData # cm.currentImageData) =>
       cm'.originalImageData = cm'.currentImageData]_vars

\* C14: originalImageData, currentImageData and every history entry always
\* have the same width and the same height.
C14_SameDimensions ==
  cm.originalImageData # Null =>
    LET h == cm.historyManager
        buffers == {cm.originalImageData, cm.currentImageData}
                     \cup {h.history[i].imageData : i \in 1..Len(h.history)}
    IN  \A p, q \in buffers : p.width = q.width /\ p.height = q.height

\* C15: an undo() or redo() that succeeds (canUndo()/canRedo() held before)
\* returns true, moves the cursor by one, makes currentImageData the entry
\* at the new cursor, and leaves currentAdjustments and originalImageData as
\* they were.
C15_UndoRedoReplaceCurrentOnly ==
  [][/\ (last'.op = "undo" /\ canUndo(cm.historyManager)) =>
          /\ ret' = Bool(TRUE)
          /\ cm'.historyManager.currentIndex = cm.historyManager.currentIndex - 1
          /\ cm'.historyManager.history = cm.historyManager.history
          /\ cm'.currentImageData = getCurrentState(cm'.historyManager)
          /\ cm'.currentAdjustments = cm.currentAdjustments
          /\ cm'.originalImageData = cm.originalImageData
     /\ (last'.op = "redo" /\ canRedo(cm.historyManager)) =>
          /\ ret' = Bool(TRUE)
          /\ cm'.historyManager.currentIndex = cm.historyManager.currentIndex + 1
          /\ cm'.historyManager.history = cm.historyManager.history
          /\ cm'.currentImageData = getCurrentState(cm'.historyManager)
          /\ cm'.currentAdjustments = cm.currentAdjustments
          /\ cm'.originalImageData = cm.originalImageData]_vars

\* invert, bake, undo: the undo brought back the loaded image while invert
\* stays set.
C15_Witness ==
  /\ last.op = "undo"
  /\ ret = Bool(TRUE)
  /\ cm.currentAdjustments.invert
  /\ cm.currentImageData = cm.originalImageData
  /\ canRedo(cm.historyManager)

\* C16: bake() on a loaded document appends a copy of currentImageData to
\* the entries up to the cursor: afterwards the cursor is on the last entry,
\* that entry equals currentImageData, canRedo() is false, and
\* currentAdjustments, originalImageData and currentImageData are unchanged.
C16_BakePushesCurrent ==
  [][(last'.op = "bake" /\ cm.currentImageData # Null) =>
       LET h == cm.historyManager
           after == cm'.historyManager
       IN  /\ after.history =
                Append(SubSeq(h.history, 1, h.currentIndex + 1),
                       [imageData |-> cm.currentImageData])
           /\ after.currentIndex = Len(after.history) - 1
           /\ getCurrentState(after) = cm'.currentImageData
           /\ ~canRedo(after)
           /\ cm'.currentAdjustments = cm.currentAdjustments
           /\ cm'.originalImageData = cm.originalImageData
           /\ cm'.currentImageData = cm.currentImageData]_vars

\* A bake of a composed buffer that differs from the original image.
C16_Witness ==
  /\ last.op = "bake"
  /\ Len(cm.historyManager.history) = 2
  /\ cm.historyManager.history[2].imageData = cm.currentImageData
  /\ cm.currentImageData # cm.originalImageData
  /\ cm.currentAdjustments.brightness = 50

\* C17: in the Editor, a user action that changes the displayed image of a
\* loaded document (an adjustment, a rotation, a flip, a crop) makes undo
\* available: canUndo() is true after it.
C17_EditMakesUndoAvailable ==
  [][(/\ last'.op \in {"applyFilter", "rotate", "flip", "confirmCrop"}
      /\ cm.currentImageData # Null
      /\ cm'.currentImageData # cm.currentImageData) =>
       canUndo(cm'.historyManager)]_vars

\* In the Editor the history never holds more than the entry loadImage or
\* reset put there, so neither undo nor redo is ever available.
EditorHistoryNeverGrows ==
  /\ Len(cm.historyManager.history) <= 1
  /\ ~canUndo(cm.historyManager)
  /\ ~canRedo(cm.historyManager)

\* C18: while no image has been loaded, applyFilter, bake, reset, undo,
\* redo, rotate, flip and confirmCrop leave every field of the manager as it
\* was, and undo and redo return false.
C18_NoOpsBeforeLoad ==
  [][(/\ cm.originalImageData = Null
      /\ last'.op \in {"applyFilter", "bake", "reset", "undo", "redo",
                       "rotate", "flip", "confirmCrop"}) =>
       /\ cm' = cm
       /\ last'.op \in {"undo", "redo"} => ret' = Bool(FALSE)
       /\ last'.op \notin {"undo", "redo"} => ret' = Void]_vars

\* confirmCrop with a crop rectangle set and no image loaded.
C18_Witness ==
  /\ last.op = "confirmCrop"
  /\ cm.originalImageData = Null
  /\ cm.currentImageData = Null
  /\ cm.cropRect # Null
  /\ cm.historyManager = NewHistoryManager

\* C19: a loadImage whose decode fails throws one error to its caller and
\* leaves every field of the manager as it was.
C19_FailedLoadMutatesNothing ==
  [][(last'.op = "loadImage" /\ last'.arg = Null) =>
       /\ ret' = [error |-> TRUE]
       /\ cm' = cm]_vars

\* A failed load over a document with an image, an adjustment and two
\* history entries.
C19_Witness ==
  /\ last = [op |-> "loadImage", arg |-> Null]
  /\ ret = [error |-> TRUE]
  /\ cm.originalImageData # Null
  /\ cm.currentAdjustments.invert
  /\ Len(cm.historyManager.history) = 2

\* The fields of currentAdjustments that belong to an operator.
OwnFields(type) ==
  CASE type = "brightness" -> {"brightness"}
    [] type = "contrast" -> {"contrast"}
    [] type = "saturation" -> {"saturation"}
    [] type = "blur" -> {"blur"}
    [] type = "adjustRGB" -> {"rgbR", "rgbG", "rgbB"}
    [] type = "histogramEqualization" ->
         {"histogramEqualizationStrength", "histogramEqualizationMode"}
    [] type = "medianFilter" -> {"medianFilterRadius"}
    [] type = "gaussianBlur" -> {"gaussianBlurSigma"}
    [] type = "sharpen" -> {"sharpenStrength"}
    [] type = "laplacianSharpen" -> {"laplacianSharpen"}
    [] type = "grayscale" -> {"grayscale"}
    [] type = "invert" -> {"invert"}
    [] OTHER -> {}

\* Parameters of every operator, and of tags without a field.
FrameRequests ==
  ComposeRequests
    \cup {[type |-> "histogramEqualization", strength |-> 50, mode |-> "rgb"],
          [type |-> "histogramEqualization"],
          [type |-> "blur"],
          [type |-> "sobelEdge"], [type |-> "prewittEdge"], [type |-> "robertsEdge"],
          [type |-> "rotate", angle |-> 90], [type |-> "flip", horizontal |-> TRUE],
          [type |-> "crop", cropRect |-> [x |-> 0, y |-> 0, width |-> 1, height |-> 1]]}

\* C20: updateAdjustments(params), from any adjustments the controls can
\* reach, leaves every field of currentAdjustments that does not belong to
\* the operator params.type as it was, and every other field of the manager
\* too; for a type without a field it changes nothing.
C20_UpdateAdjustmentsFrame ==
  \A params \in FrameRequests :
    LET a == cm.currentAdjustments
        after == updateAdjustments(cm, params)
    IN  /\ after = [cm EXCEPT !.currentAdjustments = after.currentAdjustments]
        /\ DOMAIN after.currentAdjustments = DOMAIN a
        /\ \A f \in DOMAIN a \ OwnFields(params.type) : after.currentAdjustments[f] = a[f]
        /\ OwnFields(params.type) = {} => after = cm

\* Several operators are set at once and the last call changed one of them.
C20_Witness ==
  /\ last.op = "applyFilter"
  /\ cm.originalImageData # Null
  /\ cm.currentAdjustments.brightness = 50
  /\ cm.currentAdjustments.invert
  /\ cm.currentAdjustments.grayscale
  /\ cm.currentAdjustments.blur = 1
  /\ cm.currentAdjustments.histogramEqualizationStrength = 100

(***************************************************************************)
(* Claims about filters.ts (SpecFilters); the buffer the caller holds is   *)
(* the input of the calls.                                                 *)
(***************************************************************************)
\* C21: applyFilter with the neutral parameter of an operator (0, or
\* strength 0) returns a buffer with the bytes and dimensions of its input.
C21_NeutralIsIdentity ==
  \A params \in NeutralRequests : applyFilter(heap[held], params) = heap[held]

\* C22: composing with sharpenStrength = s applies the sharpen kernel of
\* strength s (centre 1 + 4s/100, edges -s/100) to the image.
C22_SharpenStrengthApplied ==
  \A s \in StrengthSamples :
    applyAllAdjustments(Loaded(heap[held], [NeutralAdjustments EXCEPT !.sharpenStrength = s]))
      = sharpen(heap[held], s)

\* Every byte of the outputs at the strengths 0, 25, 50, 75, 100 moves in one
\* direction from the first to the last.
Monotone(img, mode) ==
  LET out == [s \in StrengthSamples |-> histogramEqualization(img, s, mode).data]
  IN  \A j \in 1..Len(img.data) :
        \/ \A s \in StrengthSamples \ {100} : out[s][j] <= out[s + 25][j]
        \/ \A s \in StrengthSamples \ {100} : out[s][j] >= out[s + 25][j]

\* C23: in both modes, the histogram equalization of an image at strength 0
\* is the image itself, and every byte moves monotonically over the
\* strengths 0, 25, 50, 75, 100 towards its value at strength 100.
C23_EqualizationBlend ==
  \A mode \in {"luminance", "rgb"} :
    /\ histogramEqualization(heap[held], 0, mode) = heap[held]
    /\ Monotone(heap[held], mode)

\* The levels histogram equalization counts: the rounded luma of each pixel
\* (luminance mode) and each colour channel (rgb mode).
LevelsOf(img) ==
  {[p \in Pixels(img) |-> GrayOf(img, p)]}
    \cup {[p \in Pixels(img) |-> img.data[p * 4 + c + 1]] : c \in 0..2}

\* C24: the normalization (cdf[v] - cdfMin) / (totalPixels - cdfMin) of
\* histogram equalization is never evaluated with a denominator of 0.
C24_NoDivisionByZero ==
  \A level \in LevelsOf(heap[held]) :
    /\ CdfDenominator(level) # 0
    /\ ~NormalizedIsNaN(level)

\* The byte stored for d + value/100 * 255: clamped to [0, 255] and rounded
\* to the nearest integer.
Brightened(d, value, k) ==
  LET n == 100 * d + 255 * value
  IN  CASE n <= 0 -> k = 0
        [] n >= 25500 -> k = 255
        [] OTHER -> /\ k \in 0..255
                    /\ 2 * Abs(100 * k - n) <= 100
                    /\ 2 * Abs(100 * k - n) = 100 => k % 2 = 0

\* C25: brightness adds value/100 * 255 to R, G and B, clamps to [0, 255]
\* and leaves alpha and the dimensions as they are; brightness 50 turns the
\* 4x4 buffer of (128,128,128,255) into (255,255,255,255) everywhere;
\* grayscale leaves a black and white checkerboard as it is and invert
\* exchanges its black and white pixels.
C25_BrightnessAndCheckerboard ==
  (last.op = "applyFilter" /\ ret \in DOMAIN heap) =>
    LET in == heap[held]
        out == heap[ret]
    IN  /\ last.arg.type = "brightness" =>
             /\ out.width = in.width /\ out.height = in.height
             /\ Len(out.data) = Len(in.data)
             /\ \A j \in 1..Len(in.data) :
                  IF Channel(j) = 3 THEN out.data[j] = in.data[j]
                  ELSE Brightened(in.data[j], last.arg.value, out.data[j])
        /\ (last.arg = [type |-> "brightness", value |-> 50] /\ in = Gray4x4) =>
             out = White4x4
        /\ \A light \in {0, 1} :
             in = Checkerboard(light) =>
               /\ last.arg.type = "grayscale" => out = Checkerboard(light)
               /\ last.arg.type = "invert" => out = Checkerboard(1 - light)
               /\ applyFilter(applyFilter(in, [type |-> "grayscale"]), [type |-> "invert"])
                    = Checkerboard(1 - light)

\* brightness 50 on the gray 4x4 buffer.
C25_Witness ==
  /\ last = [op |-> "applyFilter", arg |-> [type |-> "brightness", value |-> 50]]
  /\ heap[held] = Gray4x4
  /\ ret \in DOMAIN heap
  /\ heap[ret] = White4x4

\* C26: for every buffer, square or not, four rotations by 90 give the
\* buffer back, dimensions and bytes, a rotation by 90 and one by 270 undo
\* each other, and two flips about the same axis give the buffer back.
C26_RotateFlipRoundTrip ==
  LET in == heap[held]
      quarter(img) == rotateImage(img, 90)
  IN  /\ quarter(quarter(quarter(quarter(in)))) = in
      /\ quarter(in).width = in.height /\ quarter(in).height = in.width
      /\ rotateImage(quarter(in), 270) = in
      /\ quarter(rotateImage(in, 270)) = in
      /\ \A horizontal \in BOOLEAN :
           flipImage(flipImage(in, horizontal), horizontal) = in
      /\ (last.op = "rotateImage" /\ last.arg = 90) => rotateImage(heap[ret], 270) = in
      /\ last.op = "flipImage" => flipImage(heap[ret], last.arg.bool) = in

\* The 3x2 buffer rotated by 90 into a 2x3 buffer.
C26_Witness ==
  /\ last = [op |-> "rotateImage", arg |-> 90]
  /\ heap[held] = Image3x2
  /\ heap[ret].width = 2
  /\ heap[ret].height = 3
  /\ heap[ret].data # heap[held].data

\* C27: for every rectangle, crop returns a buffer at least 1 wide and 1
\* high and reads source pixels inside the image only.
C27_CropStaysInside ==
  \A rect \in FilterCropRects :
    LET in == heap[held]
        out == crop(in, rect)
    IN  /\ out.width >= 1 /\ out.height >= 1
        /\ \A xy \in cropReads(in, rect) :
             /\ 0 <= xy[1] /\ xy[1] < in.width
             /\ 0 <= xy[2] /\ xy[2] < in.height

\* C30: whatever the tag, applyFilter returns a buffer that is not the one
\* it was given.
C30_ReturnsNewBuffer ==
  (last.op = "applyFilter" /\ ret \in DOMAIN heap) => ret # held

(***************************************************************************)
(* Claims about cropping and edge detection in the CanvasManager           *)
(* (SpecCrop, Spec).                                                       *)
(***************************************************************************)
\* C28: confirmCrop with a crop rectangle of no area leaves the current
\* buffer, the original image and the history as they were.
C28_ZeroAreaCropAbandoned ==
  [][(/\ last'.op = "confirmCrop"
      /\ cm.currentImageData # Null
      /\ cm.cropRect # Null
      /\ cm.cropRect.width * cm.cropRect.height = 0) =>
       /\ cm'.currentImageData = cm.currentImageData
       /\ cm'.originalImageData = cm.originalImageData
       /\ cm'.historyManager = cm.historyManager]_vars

\* C29: after applyFilter with type sobelEdge on a loaded image the current
\* buffer is the Sobel edge detection of the composed image.
C29_EdgeDetectionApplied ==
  (/\ last.op = "applyFilter"
   /\ cm.originalImageData # Null
   /\ last.arg.during = Null
   /\ last.arg.params.type = "sobelEdge") =>
     cm.currentImageData =
       sobelEdgeDetection(
         applyAllAdjustments(Loaded(cm.originalImageData, cm.currentAdjustments)))

(***************************************************************************)
(* Claims about recomposition, the busy flag, the debounced handler, the   *)
(* offscreen canvas and toggles (Spec, SpecBusy, SpecDebounce).            *)
(***************************************************************************)
\* C31: an applyFilter call that is not dropped leaves the current buffer
\* equal to the adjustments composed over the original image, whatever the
\* current buffer was before (a history entry restored by undo or redo, a
\* rotated, flipped or cropped buffer), and leaves the history as it was.
C31_ApplyFilterRecomposes ==
  [][(last'.op = "applyFilter" /\ ~applyFilterReturns(cm)) =>
       /\ cm'.currentImageData =
            ApplyEach(cm'.originalImageData, Dispatches(cm'.currentAdjustments))
       /\ cm'.historyManager = cm.historyManager]_vars

\* load 2x1, rotate, bake, applyFilter: the entry under the cursor is the
\* rotated 1x2 buffer and the current buffer is 2x1 again.
C31_Witness ==
  /\ last.op = "applyFilter"
  /\ cm.currentImageData # Null
  /\ cm.historyManager.currentIndex = 1
  /\ getCurrentState(cm.historyManager).width = 1
  /\ getCurrentState(cm.historyManager).height = 2
  /\ cm.currentImageData.width = 2
  /\ cm.currentImageData.height = 1

\* C32: isProcessing is false between calls, also after an applyFilter that
\* ended by an exception, so that every applyFilter call on a loaded image
\* passes the guard and stores its parameter.
C32_BusyFlagReleased ==
  /\ [](~cm.isProcessing)
  /\ [][(last'.op = "applyFilter" /\ cm.originalImageData # Null) =>
          cm'.currentAdjustments =
            updateAdjustments(cm, last'.arg.params).currentAdjustments]_vars

\* An applyFilter of invert has thrown inside applyAllAdjustments: the flag
\* is stored, the current buffer is still the loaded image, and the busy
\* flag is released.
C32_Witness ==
  /\ last.op = "applyFilter"
  /\ "throws" \in DOMAIN last.arg
  /\ last.arg.throws = "applyAllAdjustments"
  /\ last.arg.params.type = "invert"
  /\ cm.currentAdjustments.invert
  /\ cm.currentImageData = cm.originalImageData
  /\ ~cm.isProcessing

\* The requests of the burst that are the last one of their operator.
LastOfOperator ==
  {i \in 1..Len(burst) :
     \A j \in (i + 1)..Len(burst) : burst[j].type # burst[i].type}

\* C33: when a burst of parameter changes has ended and its timer has
\* fired, the adjustments hold, for every operator the burst touched, the
\* value of the last request made for it: storing that request again
\* would change nothing.
C33_DebounceLosesNoSetting ==
  (timeout = Null /\ last.op = "timeout") =>
    \A i \in LastOfOperator :
      updateAdjustments(cm, burst[i]).currentAdjustments = cm.currentAdjustments

\* C34: a timer that fires after a reset or a load, with no parameter
\* change requested since, changes neither the adjustments nor the current
\* buffer.
C34_NoStaleChangeAfterReset ==
  [][(last.op \in {"reset", "loadImage"} /\ last'.op = "timeout") =>
       /\ cm'.currentAdjustments = cm.currentAdjustments
       /\ cm'.currentImageData = cm.currentImageData]_vars

\* C35: whenever an image is loaded, the offscreen canvas has the width and
\* the height of the current buffer and holds its pixels.
C35_OffscreenCanvasShowsCurrent ==
  cm.currentImageData # Null =>
    LET current == cm.currentImageData
    IN  /\ cm.offscreenCanvas.width = current.width
        /\ cm.offscreenCanvas.height = current.height
        /\ getImageData(cm.offscreenCanvas, current.width, current.height) = current

\* C36: where undo succeeds, undo followed by redo gives the cursor back
\* and returns a buffer equal to the entry that was current, and where redo
\* succeeds, redo followed by undo does; undo and redo leave the entries
\* as they are, move the cursor by one and return a copy of the entry the
\* cursor arrives at.
C36_UndoRedoInverse ==
  /\ [](/\ canUndo(hm) =>
            LET back == redo(undo(hm).h)
            IN  /\ back.h = hm
                /\ heap[back.entry] = heap[getCurrentState(hm)]
        /\ canRedo(hm) =>
            LET back == undo(redo(hm).h)
            IN  /\ back.h = hm
                /\ heap[back.entry] = heap[getCurrentState(hm)])
  /\ [][(last'.op \in {"undo", "redo"}) =>
          /\ Contents(hm', heap') = Contents(hm, heap)
          /\ last'.arg = Bool(TRUE) =>
               /\ hm'.currentIndex =
                    hm.currentIndex + (IF last'.op = "undo" THEN -1 ELSE 1)
               /\ heap'[ret'] = Contents(hm, heap)[hm'.currentIndex + 1]
          /\ last'.arg = Bool(FALSE) => hm'.currentIndex = hm.currentIndex]_vars

\* A redo that followed an undo: the cursor is back on the last of three
\* entries, which differs from the one before it, and its copy was returned.
C36_Witness ==
  /\ last = [op |-> "redo", arg |-> Bool(TRUE)]
  /\ Len(hm.history) = 3
  /\ hm.currentIndex = 2
  /\ heap[ret] = heap[getCurrentState(hm)]
  /\ heap[getCurrentState(hm)] # Contents(hm, heap)[2]

\* The operators that are a flag of the adjustments.
Toggles == {"grayscale", "invert", "laplacianSharpen"}

\* C37: on a loaded image, applyFilter with the type of a flag negates that
\* flag and leaves the other adjustments; a second call with the same type
\* gives back the adjustments and the buffer composed from them, which is
\* the current buffer when the last call was an applyFilter.
C37_TogglesAreInvolutions ==
  /\ [](cm.originalImageData # Null =>
          \A type \in Toggles :
            LET once == canvasApplyFilter(cm, [type |-> type], Null)
                twice == canvasApplyFilter(once, [type |-> type], Null)
            IN  /\ once.currentAdjustments =
                     [cm.currentAdjustments EXCEPT ![type] = ~cm.currentAdjustments[type]]
                /\ twice.currentAdjustments = cm.currentAdjustments
                /\ twice.currentImageData = applyAllAdjustments(cm)
                /\ last.op = "applyFilter" => twice.currentImageData = cm.currentImageData)
  /\ [][(/\ last'.op = "applyFilter"
          /\ cm.originalImageData # Null
          /\ last'.arg.params.type \in Toggles) =>
            cm'.currentAdjustments =
              [cm.currentAdjustments EXCEPT
                 ![last'.arg.params.type] = ~cm.currentAdjustments[last'.arg.params.type]]]_vars

\* invert was on with brightness 50, and an applyFilter of invert has put it
\* off again.
C37_Witness ==
  /\ last.op = "applyFilter"
  /\ last.arg.params.type = "invert"
  /\ last.arg.during = Null
  /\ cm.originalImageData # Null
  /\ cm.currentAdjustments.brightness = 50
  /\ ~cm.currentAdjustments.invert
  /\ cm.currentImageData = applyFilter(cm.originalImageData, [type |-> "brightness", value |-> 50])

\* C38: an applyFilter of histogramEqualization on a loaded image stores
\* both sub-fields from the call: a call without mode stores the mode
\* luminance and a call without strength stores the strength 0, whatever
\* was stored before, and no other adjustment changes.
C38_EqualizationOverwritesBoth ==
  [][(/\ last'.op = "applyFilter"
      /\ cm.originalImageData # Null
      /\ last'.arg.params.type = "histogramEqualization") =>
        LET params == last'.arg.params
        IN  cm'.currentAdjustments =
              [cm.currentAdjustments EXCEPT
                 !.histogramEqualizationStrength =
                    IF "strength" \in DOMAIN params THEN params.strength ELSE 0,
                 !.histogramEqualizationMode =
                    IF "mode" \in DOMAIN params THEN params.mode ELSE "luminance"]]_vars

\* Brightness is set, and a call carrying only the mode rgb has left the
\* strength 0: the current buffer is composed without equalization.
C38_Witness ==
  /\ last.op = "applyFilter"
  /\ last.arg.params = [type |-> "histogramEqualization", mode |-> "rgb"]
  /\ cm.originalImageData # Null
  /\ cm.currentAdjustments.histogramEqualizationStrength = 0
  /\ cm.currentAdjustments.histogramEqualizationMode = "rgb"
  /\ cm.currentAdjustments.brightness = 50
  /\ cm.currentImageData = applyFilter(cm.originalImageData, [type |-> "brightness", value |-> 50])

\* The bytes an edge detector does not process: those of the border ring
\* for Sobel and Prewitt, those of the last row and column for Roberts.
Unprocessed(img, type) ==
  {j \in 1..Len(img.data) :
     IF type = "robertsEdge"
       THEN XOf(img, j) >= img.width - 1 \/ YOf(img, j) >= img.height - 1
       ELSE ~Interior(img, j, 1)}

\* C39: in the buffer applyFilter returns for sobelEdge, prewittEdge and
\* robertsEdge, every unprocessed pixel is the pixel of the input, and
\* every processed pixel has R = G = B and alpha 255.
C39_EdgeBorderUntouched ==
  (/\ last.op = "applyFilter"
   /\ last.arg.type \in {"sobelEdge", "prewittEdge", "robertsEdge"}
   /\ ret \in DOMAIN heap) =>
     LET in == heap[held]
         out == heap[ret]
     IN  /\ out.width = in.width /\ out.height = in.height
         /\ \A j \in 1..Len(in.data) :
              IF j \in Unprocessed(in, last.arg.type)
                THEN out.data[j] = in.data[j]
                ELSE /\ Channel(j) = 3 => out.data[j] = 255
                     /\ Channel(j) # 3 => out.data[j] = Same(out, j, 0)

====
